---- MODULE Spec2Model ----
(***************************************************************************)
(* Model of the Flex Share Studio compile pipeline: NestedPath, the schema *)
(* validator, the template renderer with its patch overlays, the           *)
(* message-structure validator and compileAndValidate.                     *)
(*                                                                         *)
(* JavaScript values are tagged records: t is the tag, v the payload.      *)
(* Strings are TLA+ strings (Len, \o, SubSeq work character by character), *)
(* objects are sequences of [k, v] pairs in insertion order, arrays are    *)
(* sequences.  A function that can throw returns a record whose field      *)
(* threw tells whether an exception left it.  Non-ASCII literals of the    *)
(* source are written as ASCII stand-ins, named where they are defined.    *)
(***************************************************************************)
EXTENDS Integers, Sequences, FiniteSets, TLC

\* pc: "ready" before the call named by fn is made on input, "done" after it
\* has left its result in output.
VARIABLES pc, fn, input, output

vars == <<pc, fn, input, output>>

(* ---------------------------------------------------------------------- *)
(* JavaScript values                                                       *)
(* ---------------------------------------------------------------------- *)

Undef == [t |-> "undef"]

Null == [t |-> "null"]

Str(s) == [t |-> "str", v |-> s]

Num(n) == [t |-> "num", v |-> n]

Bool(b) == [t |-> "bool", v |-> b]

Arr(items) == [t |-> "arr", v |-> items]

Obj(pairs) == [t |-> "obj", v |-> pairs]

KV(key, val) == [k |-> key, v |-> val]

IsStr(x) == x.t = "str"

IsArr(x) == x.t = "arr"

\* value === undefined || value === null || value === ''
IsEmptyValue(x) == x.t = "undef" \/ x.t = "null" \/ (x.t = "str" /\ x.v = "")

\* typeof x === 'object' (true of null, arrays and objects)
TypeofObject(x) == x.t \in {"null", "arr", "obj"}

\* JavaScript truthiness: !!x
Truthy(x) ==
  CASE x.t = "undef" -> FALSE
    [] x.t = "null" -> FALSE
    [] x.t = "str" -> x.v # ""
    [] x.t = "num" -> x.v # 0
    [] x.t = "bool" -> x.v
    [] OTHER -> TRUE

\* a === b for the primitive values the code compares with ===
StrictEq(a, b) ==
  /\ a.t = b.t
  /\ CASE a.t \in {"undef", "null"} -> TRUE
       [] a.t \in {"str", "num", "bool"} -> a.v = b.v
       [] OTHER -> FALSE

(* ---------------------------------------------------------------------- *)
(* Strings                                                                 *)
(* ---------------------------------------------------------------------- *)

Digits == {"0", "1", "2", "3", "4", "5", "6", "7", "8", "9"}

HexChars == Digits \cup {"a", "b", "c", "d", "e", "f", "A", "B", "C", "D", "E", "F"}

LowerLetters == {"a", "b", "c", "d", "e", "f", "g", "h", "i", "j", "k", "l", "m",
                 "n", "o", "p", "q", "r", "s", "t", "u", "v", "w", "x", "y", "z"}

UpperLetters == {"A", "B", "C", "D", "E", "F", "G", "H", "I", "J", "K", "L", "M",
                 "N", "O", "P", "Q", "R", "S", "T", "U", "V", "W", "X", "Y", "Z"}

\* s.charAt(i - 1): the empty string outside the text
CharAt(s, i) == IF 1 <= i /\ i <= Len(s) THEN SubSeq(s, i, i) ELSE ""

\* s.slice(i - 1): the text from the i-th character on
From(s, i) == IF i > Len(s) THEN "" ELSE SubSeq(s, i, Len(s))

\* s.includes(sub)
Includes(s, sub) ==
  \E i \in 1..(Len(s) - Len(sub) + 1) : SubSeq(s, i, i + Len(sub) - 1) = sub

\* s.startsWith(sub) at position i
StartsAt(s, i, sub) ==
  i + Len(sub) - 1 <= Len(s) /\ SubSeq(s, i, i + Len(sub) - 1) = sub

\* s without its leading spaces: from the first character that is no space
TrimLeft(s) ==
  IF \E j \in 1..Len(s) : CharAt(s, j) # " "
  THEN From(s, CHOOSE j \in 1..Len(s) :
                 CharAt(s, j) # " " /\ \A k \in 1..(j - 1) : CharAt(s, k) = " ")
  ELSE ""

\* s without its trailing spaces: up to the last character that is no space
TrimRight(s) ==
  IF \E j \in 1..Len(s) : CharAt(s, j) # " "
  THEN SubSeq(s, 1, CHOOSE j \in 1..Len(s) :
                      CharAt(s, j) # " " /\ \A k \in (j + 1)..Len(s) : CharAt(s, k) = " ")
  ELSE ""

\* s.trim(); the space is the only white space of the model's alphabet
Trim(s) == TrimRight(TrimLeft(s))

LowerOf(c) ==
  CASE c = "A" -> "a" [] c = "B" -> "b" [] c = "C" -> "c" [] c = "D" -> "d"
    [] c = "E" -> "e" [] c = "F" -> "f" [] c = "G" -> "g" [] c = "H" -> "h"
    [] c = "I" -> "i" [] c = "J" -> "j" [] c = "K" -> "k" [] c = "L" -> "l"
    [] c = "M" -> "m" [] c = "N" -> "n" [] c = "O" -> "o" [] c = "P" -> "p"
    [] c = "Q" -> "q" [] c = "R" -> "r" [] c = "S" -> "s" [] c = "T" -> "t"
    [] c = "U" -> "u" [] c = "V" -> "v" [] c = "W" -> "w" [] c = "X" -> "x"
    [] c = "Y" -> "y" [] c = "Z" -> "z" [] OTHER -> c

RECURSIVE ToLowerCase(_)
ToLowerCase(s) ==
  IF Len(s) = 0 THEN "" ELSE LowerOf(CharAt(s, 1)) \o ToLowerCase(From(s, 2))

\* every character of s is in the set cs
AllIn(s, cs) == \A i \in 1..Len(s) : CharAt(s, i) \in cs

\* the first position >= i of s holding a character of cs, or Len(s) + 1
FindAny(s, i, cs) ==
  IF \E j \in i..Len(s) : CharAt(s, j) \in cs
  THEN CHOOSE j \in i..Len(s) :
         CharAt(s, j) \in cs /\ \A k \in i..(j - 1) : CharAt(s, k) \notin cs
  ELSE Len(s) + 1

\* the length of the longest prefix of s, from position i, made of characters of cs
RunLen(s, i, cs) ==
  IF \E j \in i..Len(s) : CharAt(s, j) \notin cs
  THEN (CHOOSE j \in i..Len(s) :
          CharAt(s, j) \notin cs /\ \A k \in i..(j - 1) : CharAt(s, k) \in cs) - i
  ELSE IF i > Len(s) THEN 0 ELSE Len(s) - i + 1

DigitVal(c) ==
  CASE c = "0" -> 0 [] c = "1" -> 1 [] c = "2" -> 2 [] c = "3" -> 3 [] c = "4" -> 4
    [] c = "5" -> 5 [] c = "6" -> 6 [] c = "7" -> 7 [] c = "8" -> 8 [] OTHER -> 9

\* the number a non-empty string of digits denotes
RECURSIVE NatOf(_)
NatOf(s) ==
  IF Len(s) = 0 THEN 0
  ELSE 10 * NatOf(SubSeq(s, 1, Len(s) - 1)) + DigitVal(CharAt(s, Len(s)))

\* s.split(sep) for a one-character separator
RECURSIVE Split(_, _)
Split(s, sep) ==
  LET i == FindAny(s, 1, {sep})
  IN IF i > Len(s) THEN <<s>>
     ELSE <<SubSeq(s, 1, i - 1)>> \o Split(From(s, i + 1), sep)

(* ---------------------------------------------------------------------- *)
(* NestedPath                                                              *)
(* ---------------------------------------------------------------------- *)

\* path.replace(/\[(\d+)\]/g, '.$1')
RECURSIVE ReplaceIndexBrackets(_)
ReplaceIndexBrackets(path) ==
  IF Len(path) = 0 THEN ""
  ELSE LET n == RunLen(path, 2, Digits)
       IN IF CharAt(path, 1) = "[" /\ n > 0 /\ CharAt(path, n + 2) = "]"
          THEN "." \o SubSeq(path, 2, n + 1) \o ReplaceIndexBrackets(From(path, n + 3))
          ELSE CharAt(path, 1) \o ReplaceIndexBrackets(From(path, 2))

\* the key list both getNestedValue and setNestedValue derive from a path
PathKeys(path) == Split(ReplaceIndexBrackets(path), ".")

\* a canonical array index: "0", "1", ... without leading zeros
IsArrayIndex(key) ==
  /\ Len(key) > 0
  /\ AllIn(key, Digits)
  /\ (Len(key) = 1 \/ CharAt(key, 1) # "0")

\* the index of the pair of an object that holds key, or 0
PairIndex(pairs, key) ==
  IF \E i \in 1..Len(pairs) : pairs[i].k = key
  THEN CHOOSE i \in 1..Len(pairs) : pairs[i].k = key
  ELSE 0

\* x[key] for an object or an array (own properties only)
GetProp(x, key) ==
  CASE x.t = "obj" ->
         LET i == PairIndex(x.v, key) IN IF i = 0 THEN Undef ELSE x.v[i].v
    [] x.t = "arr" ->
         IF IsArrayIndex(key) /\ NatOf(key) < Len(x.v) THEN x.v[NatOf(key) + 1]
         ELSE IF key = "length" THEN Num(Len(x.v))
         ELSE Undef
    [] OTHER -> Undef

RECURSIVE WalkKeys(_, _)
WalkKeys(result, keys) ==
  IF Len(keys) = 0 THEN result
  ELSE IF result.t \in {"null", "undef"} THEN Undef
  ELSE IF TypeofObject(result) THEN WalkKeys(GetProp(result, Head(keys)), Tail(keys))
  ELSE Undef

getNestedValue(obj, path) == WalkKeys(obj, PathKeys(path))

(* ---------------------------------------------------------------------- *)
(* JSON.parse and JSON.stringify                                           *)
(* The grammar covered: objects, arrays, strings with the escapes \" \\    *)
(* and \/, integers, true, false, null, and spaces between tokens.         *)
(* ---------------------------------------------------------------------- *)

ParseFail == [ok |-> FALSE, val |-> Undef, pos |-> 0]

ParseOk(val, pos) == [ok |-> TRUE, val |-> val, pos |-> pos]

SkipWs(s, i) == i + RunLen(s, i, {" "})

\* obj[key] = val: an existing key keeps its place, a new key is appended
SetProp(pairs, key, val) ==
  LET i == PairIndex(pairs, key)
  IN IF i = 0 THEN Append(pairs, KV(key, val))
     ELSE [pairs EXCEPT ![i] = KV(key, val)]

\* the body of a string literal, i being the position after the opening quote
RECURSIVE ParseStringBody(_, _, _)
ParseStringBody(s, i, acc) ==
  LET j == FindAny(s, i, {"\"", "\\"})
      plain == acc \o SubSeq(s, i, j - 1)
  IN IF j > Len(s) THEN ParseFail
     ELSE IF CharAt(s, j) = "\"" THEN ParseOk(Str(plain), j + 1)
     ELSE IF j < Len(s) /\ CharAt(s, j + 1) \in {"\"", "\\", "/"}
          THEN ParseStringBody(s, j + 2, plain \o CharAt(s, j + 1))
     ELSE ParseFail

\* -?(0|[1-9][0-9]*)
ParseNumber(s, i) ==
  LET neg == CharAt(s, i) = "-"
      j == IF neg THEN i + 1 ELSE i
      n == RunLen(s, j, Digits)
      len == IF n > 0 /\ CharAt(s, j) = "0" THEN 1 ELSE n
      mag == NatOf(SubSeq(s, j, j + len - 1))
  IN IF n = 0 THEN ParseFail
     ELSE ParseOk(Num(IF neg THEN 0 - mag ELSE mag), j + len)

RECURSIVE ParseValue(_, _)
RECURSIVE ParseMembers(_, _, _)
RECURSIVE ParseElements(_, _, _)

\* after a member or an element: the closing bracket, or a comma and the rest
MembersNext(s, e, acc) ==
  IF CharAt(s, e) = "}" THEN ParseOk(Obj(acc), e + 1)
  ELSE IF CharAt(s, e) = "," THEN ParseMembers(s, SkipWs(s, e + 1), acc)
  ELSE ParseFail

\* a member whose value has been read
MemberEnd(s, pairs, key, val) ==
  IF ~val.ok THEN ParseFail
  ELSE MembersNext(s, SkipWs(s, val.pos), SetProp(pairs, key, val.val))

\* a member whose key has been read
MemberValue(s, pairs, key) ==
  IF ~key.ok THEN ParseFail
  ELSE IF CharAt(s, SkipWs(s, key.pos)) # ":" THEN ParseFail
  ELSE MemberEnd(s, pairs, key.val.v,
                 ParseValue(s, SkipWs(s, SkipWs(s, key.pos) + 1)))

\* the members of an object after "{" or ",", i being at the next key
ParseMembers(s, i, pairs) ==
  IF CharAt(s, i) # "\"" THEN ParseFail
  ELSE MemberValue(s, pairs, ParseStringBody(s, i + 1, ""))

ElementsNext(s, e, acc) ==
  IF CharAt(s, e) = "]" THEN ParseOk(Arr(acc), e + 1)
  ELSE IF CharAt(s, e) = "," THEN ParseElements(s, SkipWs(s, e + 1), acc)
  ELSE ParseFail

\* an element whose value has been read
ElementEnd(s, items, val) ==
  IF ~val.ok THEN ParseFail
  ELSE ElementsNext(s, SkipWs(s, val.pos), Append(items, val.val))

\* the elements of an array after "[" or ",", i being at the next element
ParseElements(s, i, items) == ElementEnd(s, items, ParseValue(s, i))

ParseValue(s, i) ==
  LET c == CharAt(s, i)
  IN CASE c = "{" ->
            LET j == SkipWs(s, i + 1)
            IN IF CharAt(s, j) = "}" THEN ParseOk(Obj(<<>>), j + 1)
               ELSE ParseMembers(s, j, <<>>)
       [] c = "[" ->
            LET j == SkipWs(s, i + 1)
            IN IF CharAt(s, j) = "]" THEN ParseOk(Arr(<<>>), j + 1)
               ELSE ParseElements(s, j, <<>>)
       [] c = "\"" -> ParseStringBody(s, i + 1, "")
       [] c \in Digits \cup {"-"} -> ParseNumber(s, i)
       [] StartsAt(s, i, "true") -> ParseOk(Bool(TRUE), i + 4)
       [] StartsAt(s, i, "false") -> ParseOk(Bool(FALSE), i + 5)
       [] StartsAt(s, i, "null") -> ParseOk(Null, i + 4)
       [] OTHER -> ParseFail

\* the value read, provided nothing but spaces follows it
WholeText(text, r) ==
  IF r.ok /\ SkipWs(text, r.pos) > Len(text) THEN [ok |-> TRUE, val |-> r.val]
  ELSE [ok |-> FALSE, val |-> Undef]

\* JSON.parse(text): ok is FALSE where JSON.parse throws a SyntaxError
JsonParse(text) == WholeText(text, ParseValue(text, SkipWs(text, 1)))

\* the characters of a string as JSON.stringify quotes them
RECURSIVE EscapeChars(_)
EscapeChars(s) ==
  IF Len(s) = 0 THEN ""
  ELSE (IF CharAt(s, 1) \in {"\"", "\\"} THEN "\\" ELSE "") \o CharAt(s, 1)
       \o EscapeChars(From(s, 2))

NumberText(n) == IF n < 0 THEN "-" \o ToString(0 - n) ELSE ToString(n)

RECURSIVE JsonStringify(_)
RECURSIVE StringifyItems(_)
RECURSIVE StringifyPairs(_, _)

\* the elements of an array, undefined written as null
StringifyItems(items) ==
  IF Len(items) = 0 THEN ""
  ELSE (IF Head(items).t = "undef" THEN "null" ELSE JsonStringify(Head(items)))
       \o (IF Len(items) > 1 THEN "," ELSE "") \o StringifyItems(Tail(items))

\* the members of an object, those holding undefined left out
StringifyPairs(pairs, first) ==
  IF Len(pairs) = 0 THEN ""
  ELSE IF Head(pairs).v.t = "undef" THEN StringifyPairs(Tail(pairs), first)
  ELSE (IF first THEN "" ELSE ",") \o "\"" \o EscapeChars(Head(pairs).k) \o "\":"
       \o JsonStringify(Head(pairs).v) \o StringifyPairs(Tail(pairs), FALSE)

\* JSON.stringify(x) for a value other than undefined
JsonStringify(x) ==
  CASE x.t = "str" -> "\"" \o EscapeChars(x.v) \o "\""
    [] x.t = "num" -> NumberText(x.v)
    [] x.t = "bool" -> IF x.v THEN "true" ELSE "false"
    [] x.t = "arr" -> "[" \o StringifyItems(x.v) \o "]"
    [] x.t = "obj" -> "{" \o StringifyPairs(x.v, TRUE) \o "}"
    [] OTHER -> "null"

(* ---------------------------------------------------------------------- *)
(* new URL(text) and new RegExp(pattern), as far as the validators use them *)
(* ---------------------------------------------------------------------- *)

SpecialSchemes == {"http", "https", "ws", "wss", "ftp"}

\* new URL(text) without a base: ok is FALSE where the constructor throws.
\* A scheme is a letter followed by letters, digits, "+", "-" or "." up to
\* the first ":"; a special scheme needs a non-empty host without spaces
\* after any number of slashes; any other scheme takes any remainder.
InvalidURL == [ok |-> FALSE, protocol |-> ""]

\* the host of u, h being the position after the scheme's colon and slashes
HostAt(u, h) == SubSeq(u, h, FindAny(u, h, {"/", "\\", "?", "#"}) - 1)

UrlOfHost(scheme, host) ==
  IF scheme \in SpecialSchemes /\ (host = "" \/ Includes(host, " ")) THEN InvalidURL
  ELSE [ok |-> TRUE, protocol |-> scheme \o ":"]

\* u with its first n characters being scheme characters
UrlOfScheme(u, n) ==
  IF ~(n > 0 /\ CharAt(u, 1) \in LowerLetters \cup UpperLetters /\ CharAt(u, n + 1) = ":")
  THEN InvalidURL
  ELSE UrlOfHost(ToLowerCase(SubSeq(u, 1, n)),
                 HostAt(u, n + 2 + RunLen(u, n + 2, {"/", "\\"})))

UrlOfTrimmed(u) ==
  UrlOfScheme(u, RunLen(u, 1, LowerLetters \cup UpperLetters \cup Digits \cup {"+", "-", "."}))

ParseURL(text) == UrlOfTrimmed(Trim(text))

\* /^#([0-9a-fA-F]{6}|[0-9a-fA-F]{8})$/.test(text)
ColorRegexTest(text) ==
  /\ Len(text) \in {7, 9}
  /\ CharAt(text, 1) = "#"
  /\ AllIn(From(text, 2), HexChars)

\* The patterns the model's schemas use.  new RegExp("(") throws a SyntaxError;
\* a pattern without metacharacters matches where the text includes it.
DigitsPattern == "^[0-9]+$"

BadPattern == "("

RegExpCompiles(pattern) == pattern # BadPattern

RegExpTest(pattern, text) ==
  IF pattern = DigitsPattern THEN Len(text) > 0 /\ AllIn(text, Digits)
  ELSE Includes(text, pattern)

(* ---------------------------------------------------------------------- *)
(* Schema descriptors and validation errors                                *)
(* ---------------------------------------------------------------------- *)

\* an absent numeric constraint (undefined)
None == 0 - 1

NoRequiredIf == [present |-> FALSE, when |-> "", is |-> Undef]

RequiredIf(when, is) == [present |-> TRUE, when |-> when, is |-> is]

\* field.constraints || {}
NoConstraints ==
  [maxLength |-> None, minLength |-> None, minItems |-> None, maxItems |-> None,
   httpsOnly |-> FALSE, pattern |-> "", requiredIf |-> NoRequiredIf]

NoItemSchema == [present |-> FALSE, fields |-> <<>>]

ItemSchema(fields) == [present |-> TRUE, fields |-> fields]

\* a SchemaField; an absent pattern is "", an absent number None
Field(key, type, required, constraints) ==
  [key |-> key, type |-> type, required |-> required, constraints |-> constraints,
   itemSchema |-> NoItemSchema]

RepeatableField(key, required, constraints, fields) ==
  [key |-> key, type |-> "repeatable", required |-> required,
   constraints |-> constraints, itemSchema |-> ItemSchema(fields)]

\* a ValidationError; kind stands for the message text
Err(path, kind, fieldKey) == [path |-> path, kind |-> kind, fieldKey |-> fieldKey]

\* a function's normal return of an error list
Returned(errors) == [threw |-> FALSE, errors |-> errors, why |-> ""]

\* an exception leaving the function: the errors pushed so far are lost
Threw(why) == [threw |-> TRUE, errors |-> <<>>, why |-> why]

\* errors.push(...b) after a: an exception in either leaves the caller
Then(a, b) ==
  IF a.threw THEN a
  ELSE IF b.threw THEN b
  ELSE Returned(a.errors \o b.errors)

OneIf(cond, err) == IF cond THEN <<err>> ELSE <<>>

(* ---------------------------------------------------------------------- *)
(* validateField                                                           *)
(* ---------------------------------------------------------------------- *)

\* the url check once new URL(value) has been tried: format, then https
UrlChecks(field, url, displayPath) ==
  IF ~url.ok THEN <<Err(displayPath, "urlFormat", field.key)>>
  ELSE OneIf(field.constraints.httpsOnly /\ url.protocol # "https:",
             Err(displayPath, "https", field.key))

\* the checks of validateField that cannot throw, in source order:
\* color, json, maxLength, minLength, url
PlainChecks(field, value, displayPath) ==
  LET c == field.constraints
      k == field.key
  IN OneIf(field.type = "color" /\ IsStr(value) /\ ~ColorRegexTest(value.v),
           Err(displayPath, "color", k))
     \o (IF field.type # "json" THEN <<>>
         ELSE IF IsStr(value)
              THEN OneIf(~JsonParse(value.v).ok, Err(displayPath, "jsonParse", k))
         ELSE OneIf(~TypeofObject(value), Err(displayPath, "jsonObject", k)))
     \o (IF ~IsStr(value) THEN <<>>
         ELSE OneIf(c.maxLength \notin {None, 0} /\ Len(value.v) > c.maxLength,
                    Err(displayPath, "maxLength", k))
              \o OneIf(c.minLength \notin {None, 0} /\ Len(value.v) < c.minLength,
                       Err(displayPath, "minLength", k)))
     \o (IF ~(field.type \in {"url", "imageUrl"} /\ IsStr(value)) THEN <<>>
         ELSE UrlChecks(field, ParseURL(value.v), displayPath))

\* the pattern check: new RegExp throws on a pattern that does not compile
PatternCheck(field, value, displayPath) ==
  LET c == field.constraints
  IN IF ~(c.pattern # "" /\ IsStr(value)) THEN Returned(<<>>)
     ELSE IF ~RegExpCompiles(c.pattern) THEN Threw("SyntaxError: invalid regular expression")
     ELSE Returned(OneIf(~RegExpTest(c.pattern, value.v),
                         Err(displayPath, "pattern", field.key)))

RECURSIVE validateField(_, _, _, _)
RECURSIVE ValidateSubFields(_, _, _, _)
RECURSIVE ValidateItems(_, _, _, _)

\* itemSchema.fields.forEach over one item: the item is the sibling scope
ValidateSubFields(fields, item, displayPath, index) ==
  IF Len(fields) = 0 THEN Returned(<<>>)
  ELSE LET subField == Head(fields)
           subPath == displayPath \o "[" \o ToString(index) \o "]." \o subField.key
           subValue == getNestedValue(item, subField.key)
       IN Then(validateField(subField, subValue, subPath, item),
               ValidateSubFields(Tail(fields), item, displayPath, index))

\* value.forEach((item, index) => ...), index counting from 0
ValidateItems(itemSchema, items, displayPath, index) ==
  IF index >= Len(items) THEN Returned(<<>>)
  ELSE IF ~itemSchema.present THEN Threw("TypeError: itemSchema is undefined")
  ELSE Then(ValidateSubFields(itemSchema.fields, items[index + 1], displayPath, index),
            ValidateItems(itemSchema, items, displayPath, index + 1))

\* the repeatable check of a field: item counts, then every item
RepeatableCheck(field, value, displayPath) ==
  LET c == field.constraints
  IN IF ~(field.type = "repeatable" /\ IsArr(value)) THEN Returned(<<>>)
     ELSE Then(Returned(
                 OneIf(c.minItems # None /\ Len(value.v) < c.minItems,
                       Err(displayPath, "minItems", field.key))
                 \o OneIf(c.maxItems # None /\ Len(value.v) > c.maxItems,
                          Err(displayPath, "maxItems", field.key))),
               ValidateItems(field.itemSchema, value.v, displayPath, 0))

\* the required check forgets the empty string (a mutant of RequiredAndEmpty)
RequiredAndNullish(field, value) == field.required /\ value.t \in {"undef", "null"}

\* field.required and value === undefined || value === null || value === ''
RequiredAndEmpty(field, value) == field.required /\ IsEmptyValue(value)

\* any set sibling value makes the field required (a mutant of ShouldRequire)
ShouldRequireIfSet(field, context) ==
  Truthy(getNestedValue(context, field.constraints.requiredIf.when))

\* shouldRequire: the sibling value at requiredIf.when === requiredIf.is
ShouldRequire(field, context) ==
  StrictEq(getNestedValue(context, field.constraints.requiredIf.when),
           field.constraints.requiredIf.is)

\* context is Undef where the caller passes none
validateField(field, value, path, context) ==
  LET displayPath == IF path # "" THEN path ELSE field.key
      required == Err(displayPath, "required", field.key)
  IN IF RequiredAndEmpty(field, value) THEN Returned(<<required>>)
     ELSE IF /\ ~field.required
             /\ field.constraints.requiredIf.present
             /\ Truthy(context)
             /\ ShouldRequire(field, context)
             /\ IsEmptyValue(value)
          THEN Returned(<<required>>)
     ELSE IF IsEmptyValue(value) THEN Returned(<<>>)
     ELSE Then(Returned(PlainChecks(field, value, displayPath)),
               Then(PatternCheck(field, value, displayPath),
                    RepeatableCheck(field, value, displayPath)))

(* ---------------------------------------------------------------------- *)
(* validateSchemaData                                                      *)
(* ---------------------------------------------------------------------- *)

NoFields == [present |-> FALSE, fields |-> <<>>]

\* a plain section: { id, fields }
PlainSection(id, fields) ==
  [id |-> id, repeatable |-> FALSE, key |-> "", constraints |-> NoConstraints,
   itemSchema |-> NoItemSchema, fields |-> [present |-> TRUE, fields |-> fields]]

\* a repeatable section: { id, repeatable: true, key, constraints, itemSchema }
RepeatableSection(id, key, constraints, fields) ==
  [id |-> id, repeatable |-> TRUE, key |-> key, constraints |-> constraints,
   itemSchema |-> ItemSchema(fields), fields |-> NoFields]

\* a TemplateSchema; a stored record may lack its sections
Schema(sections) == [hasSections |-> TRUE, sections |-> sections]

SchemaWithoutSections == [hasSections |-> FALSE, sections |-> <<>>]

RECURSIVE ValidateSectionFields(_, _)
\* section.fields.forEach: top-level data is the sibling scope
ValidateSectionFields(fields, data) ==
  IF Len(fields) = 0 THEN Returned(<<>>)
  ELSE LET field == Head(fields)
       IN Then(validateField(field, getNestedValue(data, field.key), field.key, data),
               ValidateSectionFields(Tail(fields), data))

RECURSIVE ValidateSectionItemFields(_, _, _, _)
\* section.itemSchema?.fields.forEach over one item of a repeatable section
ValidateSectionItemFields(fields, item, key, index) ==
  IF Len(fields) = 0 THEN Returned(<<>>)
  ELSE LET field == Head(fields)
           path == key \o "[" \o ToString(index) \o "]." \o field.key
       IN Then(validateField(field, getNestedValue(item, field.key), path, item),
               ValidateSectionItemFields(Tail(fields), item, key, index))

RECURSIVE ValidateSectionItems(_, _, _)
\* items.forEach((item, index) => ...), index counting from 0
ValidateSectionItems(section, items, index) ==
  IF index >= Len(items) \/ ~section.itemSchema.present THEN Returned(<<>>)
  ELSE Then(ValidateSectionItemFields(section.itemSchema.fields, items[index + 1],
                                      section.key, index),
            ValidateSectionItems(section, items, index + 1))

\* the items are validated only where no bound is violated
ValidateSectionWithinBounds(section, data) ==
  LET c == section.constraints
      items == getNestedValue(data, section.key)
  IN IF section.repeatable /\ section.key # ""
     THEN IF ~IsArr(items)
          THEN Returned(OneIf(c.minItems \notin {None, 0} /\ c.minItems > 0,
                              Err(section.key, "minItems", section.key)))
          ELSE IF c.minItems # None /\ Len(items.v) < c.minItems
               THEN Returned(<<Err(section.key, "minItems", section.key)>>)
          ELSE IF c.maxItems # None /\ Len(items.v) > c.maxItems
               THEN Returned(<<Err(section.key, "maxItems", section.key)>>)
          ELSE ValidateSectionItems(section, items.v, 0)
     ELSE IF section.fields.present THEN ValidateSectionFields(section.fields.fields, data)
     ELSE Returned(<<>>)

\* the body of schema.sections.forEach for one section
ValidateSection(section, data) ==
  LET c == section.constraints
      items == getNestedValue(data, section.key)
  IN IF section.repeatable /\ section.key # ""
     THEN IF ~IsArr(items)
          THEN Returned(OneIf(c.minItems \notin {None, 0} /\ c.minItems > 0,
                              Err(section.key, "minItems", section.key)))
          ELSE Then(Returned(
                      OneIf(c.minItems # None /\ Len(items.v) < c.minItems,
                            Err(section.key, "minItems", section.key))
                      \o OneIf(c.maxItems # None /\ Len(items.v) > c.maxItems,
                               Err(section.key, "maxItems", section.key))),
                    ValidateSectionItems(section, items.v, 0))
     ELSE IF section.fields.present THEN ValidateSectionFields(section.fields.fields, data)
     ELSE Returned(<<>>)

RECURSIVE ValidateSections(_, _)
ValidateSections(sections, data) ==
  IF Len(sections) = 0 THEN Returned(<<>>)
  ELSE Then(ValidateSection(Head(sections), data), ValidateSections(Tail(sections), data))

\* the ValidationResult object { ok, errors } the function returns
ValidationResult(errors) == [t |-> "ValidationResult", ok |-> errors = <<>>, errors |-> errors]

\* return { ok: errors.length === 0, errors }, unless an exception left the loop
SchemaOutcome(r) ==
  IF r.threw THEN [threw |-> TRUE, why |-> r.why, value |-> Undef]
  ELSE [threw |-> FALSE, why |-> "", value |-> ValidationResult(r.errors)]

\* value is the returned object; threw tells that an exception left the call
validateSchemaData(schema, data) ==
  SchemaOutcome(IF ~schema.hasSections
                THEN Threw("TypeError: schema.sections is undefined")
                ELSE ValidateSections(schema.sections, data))

(* ---------------------------------------------------------------------- *)
(* Legacy interpolation: interpolateTemplate                               *)
(* ---------------------------------------------------------------------- *)

\* the first match of /\$\{data\.([^}]+)\}/ in text at or after position i:
\* found, the positions of its first and last character, and the group
MatchesAt(text, j) ==
  /\ StartsAt(text, j, "${data.")
  /\ FindAny(text, j + 7, {"}"}) <= Len(text)
  /\ FindAny(text, j + 7, {"}"}) > j + 7

\* the match that starts at position start and ends at the brace at stop
VariableAt(text, start, stop) ==
  [found |-> TRUE, start |-> start, stop |-> stop,
   path |-> SubSeq(text, start + 7, stop - 1)]

VariableFrom(text, start) == VariableAt(text, start, FindAny(text, start + 7, {"}"}))

NextVariable(text, i) ==
  IF \E j \in i..Len(text) : MatchesAt(text, j)
  THEN VariableFrom(text, CHOOSE j \in i..Len(text) :
                            MatchesAt(text, j) /\ \A k \in i..(j - 1) : ~MatchesAt(text, k))
  ELSE [found |-> FALSE, start |-> 0, stop |-> 0, path |-> ""]

\* the replacement text of String.prototype.replace with its $-patterns
\* expanded: $$, $& and $' (a string pattern has no groups; the pattern of
\* dollar and backquote is left out, a backquote cannot be written in a string
\* of this module and so never occurs in a value)
RECURSIVE ExpandReplacement(_, _, _)
ExpandReplacement(repl, matched, after) ==
  IF Len(repl) = 0 THEN ""
  ELSE IF CharAt(repl, 1) = "$" /\ CharAt(repl, 2) \in {"$", "&", "'"}
       THEN (CASE CharAt(repl, 2) = "$" -> "$"
               [] CharAt(repl, 2) = "&" -> matched
               [] OTHER -> after)
            \o ExpandReplacement(From(repl, 3), matched, after)
  ELSE CharAt(repl, 1) \o ExpandReplacement(From(repl, 2), matched, after)

\* the position of the first occurrence of sub in text, or 0
FirstIndexOf(text, sub) ==
  IF Includes(text, sub)
  THEN CHOOSE i \in 1..(Len(text) - Len(sub) + 1) :
         /\ SubSeq(text, i, i + Len(sub) - 1) = sub
         /\ \A j \in 1..(i - 1) : SubSeq(text, j, j + Len(sub) - 1) # sub
  ELSE 0

\* text.replace(search, repl) with a string pattern: the first occurrence only
ReplaceAt(text, search, repl, i) ==
  IF i = 0 THEN text
  ELSE SubSeq(text, 1, i - 1)
       \o ExpandReplacement(repl, search, From(text, i + Len(search)))
       \o From(text, i + Len(search))

ReplaceFirst(text, search, repl) == ReplaceAt(text, search, repl, FirstIndexOf(text, search))

\* the replacement chosen by the type of the value
ReplacementOf(value) ==
  CASE value.t = "str" -> value.v
    [] value.t = "num" -> NumberText(value.v)
    [] value.t = "bool" -> (IF value.v THEN "true" ELSE "false")
    [] OTHER -> JsonStringify(value)

\* the error pushed for a variable that resolves to undefined
MissingValueAtTemplateText(path) == Err("templateText", "missingValue", "")

MissingValue(path) == Err("data." \o path, "missingValue", "")

\* the while loop: matches are taken from templateText, replacements are made
\* in result
RECURSIVE InterpolateFrom(_, _, _, _, _)

\* the body of the loop for the match m, whose path resolves to value
InterpolateValue(templateText, data, result, errors, m, value) ==
  IF value.t = "undef"
  THEN InterpolateFrom(templateText, data, m.stop + 1, result,
                       Append(errors, MissingValue(m.path)))
  ELSE InterpolateFrom(templateText, data, m.stop + 1,
                       ReplaceFirst(result, SubSeq(templateText, m.start, m.stop),
                                    ReplacementOf(value)),
                       errors)

\* the loop condition: m is what variablePattern.exec returned
InterpolateMatch(templateText, data, result, errors, m) ==
  IF ~m.found THEN [result |-> result, errors |-> errors]
  ELSE InterpolateValue(templateText, data, result, errors, m,
                        getNestedValue(data, m.path))

InterpolateFrom(templateText, data, i, result, errors) ==
  InterpolateMatch(templateText, data, result, errors, NextVariable(templateText, i))

\* the partially substituted text is returned along with the errors
InterpolateResultPartial(r) ==
  [hasResult |-> TRUE, result |-> r.result, errors |-> r.errors]

\* return { result: errors.length > 0 ? null : result, errors }
InterpolateResult(r) ==
  IF Len(r.errors) > 0 THEN [hasResult |-> FALSE, result |-> "", errors |-> r.errors]
  ELSE [hasResult |-> TRUE, result |-> r.result, errors |-> <<>>]

\* result is null (hasResult FALSE) where an error was collected
interpolateTemplate(templateText, data) ==
  InterpolateResult(InterpolateFrom(templateText, data, 1, templateText, <<>>))

(* ---------------------------------------------------------------------- *)
(* Patch overlays: isPlainObject, deepMerge, parseJsonMaybe,               *)
(* applyInlinePatches                                                      *)
(* ---------------------------------------------------------------------- *)

isPlainObject(x) == x.t = "obj"

RECURSIVE deepMerge(_, _)
RECURSIVE MergeEntries(_, _)

\* the value of the patch always replaces the one of the base
MergedValueReplacing(cur, v) == v

\* the value stored at a key of the patch: merged where both are plain
\* objects, the value of the patch otherwise
MergedValue(cur, v) ==
  IF isPlainObject(v) /\ isPlainObject(cur) THEN deepMerge(cur, v) ELSE v

\* for (const [k, v] of Object.entries(patch)) over the copy out
MergeEntries(out, entries) ==
  IF Len(entries) = 0 THEN out
  ELSE MergeEntries(SetProp(out, Head(entries).k,
                            MergedValue(GetProp(Obj(out), Head(entries).k),
                                        Head(entries).v)),
                    Tail(entries))

deepMerge(base, patch) ==
  IF ~isPlainObject(base) \/ ~isPlainObject(patch) THEN base
  ELSE Obj(MergeEntries(base.v, patch.v))

\* try { return JSON.parse(v) } catch { return v }
ParsedOr(parsed, value) == IF parsed.ok THEN parsed.val ELSE value

parseJsonMaybe(value) ==
  IF IsStr(value) THEN ParsedOr(JsonParse(value.v), value) ELSE value

\* delete obj[key]
DeleteProp(pairs, key) == SelectSeq(pairs, LAMBDA kv : kv.k # key)

RECURSIVE applyInlinePatches(_)
RECURSIVE PatchItems(_)
RECURSIVE PatchEntries(_)

\* node.map(applyInlinePatches)
PatchItems(items) ==
  IF Len(items) = 0 THEN <<>>
  ELSE <<applyInlinePatches(Head(items))>> \o PatchItems(Tail(items))

\* obj[k] = applyInlinePatches(v) for every entry
PatchEntries(pairs) ==
  IF Len(pairs) = 0 THEN <<>>
  ELSE <<KV(Head(pairs).k, applyInlinePatches(Head(pairs).v))>> \o PatchEntries(Tail(pairs))

\* the merged object is returned as it is, a __patch it received left in place
PatchObjectOnce(obj, hasPatch, patch) ==
  IF hasPatch /\ isPlainObject(patch) THEN deepMerge(obj, patch)
  ELSE Obj(PatchEntries(obj.v))

\* an object whose __patch has been parsed and deleted
PatchObject(obj, hasPatch, patch) ==
  IF hasPatch /\ isPlainObject(patch) THEN applyInlinePatches(deepMerge(obj, patch))
  ELSE Obj(PatchEntries(obj.v))

\* the tree is returned as it came
applyInlinePatchesSkipped(node) == node

applyInlinePatches(node) ==
  IF IsArr(node) THEN Arr(PatchItems(node.v))
  ELSE IF ~isPlainObject(node) THEN node
  ELSE PatchObject(Obj(DeleteProp(node.v, "__patch")),
                   GetProp(node, "__patch").t # "undef",
                   parseJsonMaybe(GetProp(node, "__patch")))

(* ---------------------------------------------------------------------- *)
(* Handlebars: the registered helpers and the built-in template texts      *)
(* ---------------------------------------------------------------------- *)

\* the json helper: JSON.stringify(value ?? null)
HbJson(value) == JsonStringify(IF value.t = "undef" THEN Null ELSE value)

\* the default helper
HbDefault(value, fallback) ==
  IF value.t \in {"undef", "null"} THEN fallback
  ELSE IF IsStr(value) /\ Trim(value.v) = "" THEN fallback
  ELSE value

\* the hasItems helper
HbHasItems(arr) == Bool(IsArr(arr) /\ Len(arr.v) > 0)

HbEq(a, b) == Bool(StrictEq(a, b))

HbNe(a, b) == Bool(~StrictEq(a, b))

\* the and helper: vals.every(Boolean)
HbAnd(vals) == Bool(\A i \in 1..Len(vals) : Truthy(vals[i]))

\* the condition of a block if: a falsy value and an empty array take the
\* inverse branch
HbIf(value) == Truthy(value) /\ ~(IsArr(value) /\ Len(value.v) = 0)

\* a dotted path looked up in a context (own properties only)
HbPath(context, path) == WalkKeys(context, Split(path, "."))

\* the items a block each iterates over: the elements of an array, the
\* values of an object, nothing otherwise
HbEachItems(value) ==
  CASE value.t = "arr" -> value.v
    [] value.t = "obj" -> [i \in 1..Len(value.v) |-> value.v[i].v]
    [] OTHER -> <<>>

\* the iterations of an each joined by the "," that {{#unless @last}} emits
RECURSIVE JoinComma(_)
JoinComma(texts) ==
  IF Len(texts) = 0 THEN ""
  ELSE IF Len(texts) = 1 THEN texts[1]
  ELSE texts[1] \o "," \o JoinComma(Tail(texts))

\* the "action" object both built-in texts emit for a button
ActionText(item) ==
  LET type == HbDefault(HbPath(item, "actionType"), Str("uri"))
  IN "{\"type\":" \o HbJson(type) \o ",\"label\":" \o HbJson(HbPath(item, "label"))
     \o (IF HbIf(HbEq(type, Str("uri"))) THEN ",\"uri\":" \o HbJson(HbPath(item, "url"))
         ELSE IF HbIf(HbEq(type, Str("message")))
              THEN ",\"text\":" \o HbJson(HbPath(item, "text"))
         ELSE IF HbIf(HbEq(type, Str("postback")))
              THEN ",\"data\":" \o HbJson(HbPath(item, "data"))
         ELSE "")
     \o "}"

\* one button; style, height and color already carry the fallbacks of the text
ButtonText(item, style, height, color) ==
  "{\"type\":\"button\",\"action\":" \o ActionText(item)
  \o ",\"style\":" \o HbJson(style) \o ",\"height\":" \o HbJson(height)
  \o (IF HbIf(HbAnd(<<HbNe(style, Str("link")), HbDefault(color, Null)>>))
      THEN ",\"color\":" \o HbJson(color) ELSE "")
  \o (IF HbIf(HbPath(item, "buttonPatch"))
      THEN ",\"__patch\":" \o HbJson(HbPath(item, "buttonPatch")) ELSE "")
  \o "}"

\* the footer both built-in texts emit where hasItems holds
FooterText(buttons, texts) ==
  IF HbIf(HbHasItems(buttons))
  THEN ",\"footer\":{\"type\":\"box\",\"layout\":\"vertical\",\"spacing\":\"sm\",\"contents\":["
       \o JoinComma(texts) \o "]}"
  ELSE ""

\* the fallback alt texts, written in ASCII for the texts of the source
PosterAltText == "View event poster"

CarouselAltText == "View message"

\* an icon row of the single poster (the icon written in ASCII)
IconRowText(icon, margin, value) ==
  IF HbIf(value)
  THEN ",{\"type\":\"box\",\"layout\":\"baseline\",\"margin\":\"" \o margin \o "\",\"contents\":["
       \o "{\"type\":\"text\",\"text\":\"" \o icon \o "\",\"size\":\"sm\",\"flex\":0},"
       \o "{\"type\":\"text\",\"text\":" \o HbJson(value)
       \o ",\"size\":\"sm\",\"color\":\"#666666\",\"margin\":\"sm\",\"flex\":1}]}"
  ELSE ""

\* what singlePosterTemplateText renders for data (JSON white space left out)
SinglePosterText(data) ==
  LET buttons == HbPath(data, "buttons")
      items == HbEachItems(buttons)
      description == HbPath(data, "description")
  IN "{\"type\":\"flex\",\"altText\":"
     \o HbJson(HbDefault(HbPath(data, "altText"), Str(PosterAltText)))
     \o ",\"contents\":{\"type\":\"bubble\",\"size\":\"mega\",\"hero\":{\"type\":\"image\",\"url\":"
     \o HbJson(HbPath(data, "heroImageUrl")) \o ",\"size\":\"full\",\"aspectRatio\":"
     \o HbJson(HbDefault(HbPath(data, "heroAspectRatio"), Str("20:13")))
     \o ",\"aspectMode\":" \o HbJson(HbDefault(HbPath(data, "heroAspectMode"), Str("cover")))
     \o "},\"body\":{\"type\":\"box\",\"layout\":\"vertical\",\"backgroundColor\":"
     \o HbJson(HbDefault(HbPath(data, "bodyBgColor"), Str("#ffffff")))
     \o ",\"contents\":[{\"type\":\"text\",\"text\":" \o HbJson(HbPath(data, "title"))
     \o ",\"weight\":\"bold\",\"size\":" \o HbJson(HbDefault(HbPath(data, "titleSize"), Str("xl")))
     \o ",\"color\":" \o HbJson(HbDefault(HbPath(data, "titleColor"), Str("#111111")))
     \o ",\"wrap\":true}"
     \o (IF HbIf(description)
         THEN ",{\"type\":\"text\",\"text\":" \o HbJson(description) \o ",\"size\":"
              \o HbJson(HbDefault(HbPath(data, "descriptionSize"), Str("sm")))
              \o ",\"color\":"
              \o HbJson(HbDefault(HbPath(data, "descriptionColor"), Str("#666666")))
              \o ",\"margin\":\"md\",\"wrap\":true}"
         ELSE "")
     \o IconRowText("(date)", "md", HbPath(data, "date"))
     \o IconRowText("(place)", "sm", HbPath(data, "location"))
     \o "]}"
     \o FooterText(buttons,
          [i \in 1..Len(items) |->
            ButtonText(items[i],
                       HbDefault(HbPath(items[i], "style"), Str("primary")),
                       HbDefault(HbPath(items[i], "height"), Str("sm")),
                       HbPath(items[i], "color"))])
     \o "}}"

\* one bubble of the carousel; root is the context "../" names
PageText(page, root) ==
  LET cta == HbPath(page, "cta")
      items == HbEachItems(cta)
      desc == HbPath(page, "desc")
      Own(key, rootPath, fallback) ==
        HbDefault(HbPath(page, key), HbDefault(HbPath(root, rootPath), Str(fallback)))
  IN "{\"type\":\"bubble\",\"hero\":{\"type\":\"image\",\"url\":"
     \o HbJson(HbPath(page, "imageUrl")) \o ",\"size\":\"full\",\"aspectRatio\":"
     \o HbJson(Own("imageAspectRatio", "hero.aspectRatio", "1:1"))
     \o ",\"aspectMode\":" \o HbJson(Own("imageAspectMode", "hero.aspectMode", "cover"))
     \o "},\"body\":{\"type\":\"box\",\"layout\":\"vertical\",\"backgroundColor\":"
     \o HbJson(Own("bodyBgColor", "style.bubble.bodyBgColor", "#ffffff"))
     \o ",\"contents\":[{\"type\":\"text\",\"text\":" \o HbJson(HbPath(page, "headline"))
     \o ",\"wrap\":true,\"weight\":"
     \o HbJson(Own("headlineWeight", "style.headline.weight", "bold"))
     \o ",\"size\":" \o HbJson(Own("headlineSize", "style.headline.size", "lg"))
     \o ",\"color\":" \o HbJson(Own("headlineColor", "style.headline.color", "#111111"))
     \o "}"
     \o (IF HbIf(desc)
         THEN ",{\"type\":\"text\",\"text\":" \o HbJson(desc)
              \o ",\"wrap\":true,\"margin\":\"md\",\"size\":"
              \o HbJson(Own("descSize", "style.desc.size", "sm"))
              \o ",\"color\":" \o HbJson(Own("descColor", "style.desc.color", "#666666"))
              \o "}"
         ELSE "")
     \o "]}"
     \o FooterText(cta,
          [i \in 1..Len(items) |->
            ButtonText(items[i],
                       HbDefault(HbPath(items[i], "style"),
                                 HbDefault(HbPath(root, "style.button.style"), Str("primary"))),
                       HbDefault(HbPath(items[i], "height"),
                                 HbDefault(HbPath(root, "style.button.height"), Str("sm"))),
                       HbDefault(HbPath(items[i], "color"),
                                 HbPath(root, "style.button.color")))])
     \o "}"

\* what carouselTemplateText renders for data (JSON white space left out)
CarouselText(data) ==
  LET pages == HbEachItems(HbPath(data, "pages"))
  IN "{\"type\":\"flex\",\"altText\":"
     \o HbJson(HbDefault(HbPath(data, "altText"), Str(CarouselAltText)))
     \o ",\"contents\":{\"type\":\"carousel\",\"contents\":["
     \o JoinComma([i \in 1..Len(pages) |-> PageText(pages[i], data)])
     \o "]}}"

\* String(value)
RECURSIVE ToStringJS(_)
RECURSIVE JoinItems(_)

\* Array.prototype.join: null and undefined elements give the empty text
JoinItems(items) ==
  IF Len(items) = 0 THEN ""
  ELSE (IF Head(items).t \in {"undef", "null"} THEN "" ELSE ToStringJS(Head(items)))
       \o (IF Len(items) > 1 THEN "," ELSE "") \o JoinItems(Tail(items))

ToStringJS(value) ==
  CASE value.t = "str" -> value.v
    [] value.t = "num" -> NumberText(value.v)
    [] value.t = "bool" -> (IF value.v THEN "true" ELSE "false")
    [] value.t = "null" -> "null"
    [] value.t = "undef" -> "undefined"
    [] value.t = "arr" -> JoinItems(value.v)
    [] OTHER -> "[object Object]"

\* the position of the first occurrence of sub in text at or after i, or 0
FindSub(text, i, sub) ==
  IF \E j \in i..Len(text) : StartsAt(text, j, sub)
  THEN CHOOSE j \in i..Len(text) :
         StartsAt(text, j, sub) /\ \A k \in i..(j - 1) : ~StartsAt(text, k, sub)
  ELSE 0

PathChars == Digits \cup LowerLetters \cup UpperLetters \cup {"_", "."}

HbText(text) == [threw |-> FALSE, text |-> text]

HbThrew == [threw |-> TRUE, text |-> ""]

\* a template text that is not one of the built-in two: literal text,
\* {{{json path}}} and {{path}} are rendered; an expression that is not
\* closed, or that names no path, makes Handlebars throw (block expressions
\* are outside this model and occur in no input)
RECURSIVE HbRun(_, _, _, _)
HbRun(text, data, i, acc) ==
  LET open == FindSub(text, i, "{{")
      json == StartsAt(text, open, "{{{json ")
      from == IF json THEN open + 8 ELSE open + 2
      close == FindSub(text, from, IF json THEN "}}}" ELSE "}}")
      path == IF close = 0 THEN "" ELSE Trim(SubSeq(text, from, close - 1))
      value == HbPath(data, path)
      literal == acc \o SubSeq(text, i, open - 1)
  IN IF open = 0 THEN HbText(acc \o From(text, i))
     ELSE IF close = 0 \/ path = "" \/ ~AllIn(path, PathChars) THEN HbThrew
     ELSE IF json THEN HbRun(text, data, close + 3, literal \o HbJson(value))
     ELSE HbRun(text, data, close + 2,
                literal \o (IF value.t \in {"undef", "null"} THEN ""
                            ELSE ToStringJS(value)))

\* the two built-in texts are named here, not spelled out: what they render
\* is SinglePosterText and CarouselText
singlePosterTemplateText == "{{!singlePosterTemplateText}}"

carouselTemplateText == "{{!carouselTemplateText}}"

\* hb.compile(templateText, ...)(data)
HbCompiled(templateText, data) ==
  IF templateText = singlePosterTemplateText THEN HbText(SinglePosterText(data))
  ELSE IF templateText = carouselTemplateText THEN HbText(CarouselText(data))
  ELSE HbRun(templateText, data, 1, "")

(* ---------------------------------------------------------------------- *)
(* renderFlexMessage                                                       *)
(* ---------------------------------------------------------------------- *)

RenderResult(message, errors) == [message |-> message, errors |-> errors]

\* from JSON.parse on: inline patches, the final patch, the result
\* data.advanced.messagePatch merged over the patched message
FinalPatch(patched, patch) ==
  RenderResult(IF isPlainObject(patch) THEN deepMerge(patched, patch) ELSE patched, <<>>)

\* the final patch merged before the inline patches are expanded
AfterParsePatchedFirst(parsed, data) ==
  IF ~parsed.ok THEN RenderResult(Null, <<Err("templateText", "invalidJson", "")>>)
  ELSE RenderResult(
         applyInlinePatches(
           FinalPatch(parsed.val,
                      parseJsonMaybe(HbPath(data, "advanced.messagePatch"))).message),
         <<>>)

\* the outcome of JSON.parse: a SyntaxError, or the message to be patched
AfterParse(parsed, data) ==
  IF ~parsed.ok THEN RenderResult(Null, <<Err("templateText", "invalidJson", "")>>)
  ELSE FinalPatch(applyInlinePatches(parsed.val),
                  parseJsonMaybe(HbPath(data, "advanced.messagePatch")))

\* from JSON.parse on: inline patches, the final patch, the result
RenderParsed(rendered, data) == AfterParse(JsonParse(rendered), data)

\* the text to parse, or the result that ends the call before JSON.parse
RenderedText(text) == [stopped |-> FALSE, text |-> text, result |-> RenderResult(Null, <<>>)]

RenderStopped(result) == [stopped |-> TRUE, text |-> "", result |-> result]

\* Handlebars mode: an exception of the renderer goes to the outer catch
HandlebarsModeText(compiled) ==
  IF compiled.threw THEN RenderStopped(RenderResult(Null, <<Err("root", "renderFailed", "")>>))
  ELSE RenderedText(compiled.text)

\* legacy mode: if (!result) return { message: null, errors }
LegacyModeText(out) ==
  IF ~out.hasResult \/ out.result = "" THEN RenderStopped(RenderResult(Null, out.errors))
  ELSE RenderedText(out.result)

\* the three modes of a text that is not blank
RenderText(templateText, data) ==
  IF Includes(templateText, "{{") THEN HandlebarsModeText(HbCompiled(templateText, data))
  ELSE IF Includes(templateText, "${data.")
       THEN LegacyModeText(interpolateTemplate(templateText, data))
  ELSE RenderedText(templateText)

AfterRender(rendered, data) ==
  IF rendered.stopped THEN rendered.result ELSE RenderParsed(rendered.text, data)

\* templateText is a string value, or null or undefined where the record
\* carries none
renderFlexMessage(templateText, data) ==
  IF ~Truthy(templateText) \/ Trim(templateText.v) = ""
  THEN RenderResult(Null, <<Err("templateText", "empty", "")>>)
  ELSE AfterRender(RenderText(templateText.v, data), data)

(* ---------------------------------------------------------------------- *)
(* validateFlexForShareTargetPicker                                        *)
(* ---------------------------------------------------------------------- *)

AltTextLimit == 400

\* "!x || x.trim() === ''" : TRUE or FALSE, or a TypeError where x is truthy
\* and no string
BlankOrThrows(x) ==
  IF ~Truthy(x) THEN [threw |-> FALSE, blank |-> TRUE]
  ELSE IF ~IsStr(x) THEN [threw |-> TRUE, blank |-> FALSE]
  ELSE [threw |-> FALSE, blank |-> Trim(x.v) = ""]

\* one error at path where x is blank; the TypeError carried on
BlankCheck(x, path, kind) ==
  IF BlankOrThrows(x).threw THEN Threw("TypeError: trim is not a function")
  ELSE Returned(OneIf(BlankOrThrows(x).blank, Err(path, kind, "")))

\* the uri branch: missing, not https, or not parseable
UriCheck(action, actionPath) ==
  LET uri == GetProp(action, "uri")
      url == ParseURL(ToStringJS(uri))
  IN IF ~Truthy(uri) THEN <<Err(actionPath \o ".uri", "uriMissing", "")>>
     ELSE IF ~url.ok THEN <<Err(actionPath \o ".uri", "uriFormat", "")>>
     ELSE OneIf(url.protocol # "https:", Err(actionPath \o ".uri", "uriNotHttps", ""))

\* the checks of record.action
ActionCheck(action, actionPath) ==
  LET type == GetProp(action, "type")
  IN Then(BlankCheck(GetProp(action, "label"), actionPath \o ".label", "labelEmpty"),
          IF StrictEq(type, Str("uri")) THEN Returned(UriCheck(action, actionPath))
          ELSE IF StrictEq(type, Str("message"))
               THEN BlankCheck(GetProp(action, "text"), actionPath \o ".text", "textEmpty")
          ELSE IF StrictEq(type, Str("postback"))
               THEN BlankCheck(GetProp(action, "data"), actionPath \o ".data", "dataEmpty")
          ELSE Returned(<<>>))

RECURSIVE checkActions(_, _)
RECURSIVE CheckItems(_, _, _)
RECURSIVE CheckEntries(_, _)

\* obj.forEach((item, index) => checkActions(item, path[index]))
CheckItems(items, path, index) ==
  IF index > Len(items) THEN Returned(<<>>)
  ELSE Then(checkActions(items[index], path \o "[" \o ToString(index - 1) \o "]"),
            CheckItems(items, path, index + 1))

\* the entries other than "action" that hold an object
CheckEntries(pairs, path) ==
  IF Len(pairs) = 0 THEN Returned(<<>>)
  ELSE Then(IF Head(pairs).k # "action" /\ Truthy(Head(pairs).v)
               /\ TypeofObject(Head(pairs).v)
            THEN checkActions(Head(pairs).v, path \o "." \o Head(pairs).k)
            ELSE Returned(<<>>),
            CheckEntries(Tail(pairs), path))

checkActions(obj, path) ==
  IF ~Truthy(obj) \/ ~TypeofObject(obj) THEN Returned(<<>>)
  ELSE IF IsArr(obj) THEN CheckItems(obj.v, path, 1)
  ELSE LET action == GetProp(obj, "action")
       IN Then(IF Truthy(action) /\ TypeofObject(action)
               THEN ActionCheck(action, path \o ".action")
               ELSE Returned(<<>>),
               CheckEntries(obj.v, path))

\* the altText check: required, and at most AltTextLimit characters
AltTextCheck(altText) ==
  IF BlankOrThrows(altText).threw THEN Threw("TypeError: trim is not a function")
  ELSE IF BlankOrThrows(altText).blank THEN Returned(<<Err("altText", "altTextRequired", "")>>)
  ELSE Returned(OneIf(Len(altText.v) > AltTextLimit, Err("altText", "altTextTooLong", "")))

validateFlexForShareTargetPicker(message) ==
  Then(AltTextCheck(GetProp(message, "altText")),
       checkActions(GetProp(message, "contents"), "contents"))

(* ---------------------------------------------------------------------- *)
(* The built-in schemas: carouselSchema, singlePosterSchema                *)
(* ---------------------------------------------------------------------- *)

MaxLength(n) == [NoConstraints EXCEPT !.maxLength = n]

HttpsOnly == [NoConstraints EXCEPT !.httpsOnly = TRUE]

ItemBounds(min, max) == [NoConstraints EXCEPT !.minItems = min, !.maxItems = max]

\* the fields "url", "text" and "data" of a button, each required for its
\* own action type
ActionFields ==
  <<Field("url", "url", FALSE,
          [HttpsOnly EXCEPT !.requiredIf = RequiredIf("actionType", Str("uri"))]),
    Field("text", "text", FALSE,
          [MaxLength(300) EXCEPT !.requiredIf = RequiredIf("actionType", Str("message"))]),
    Field("data", "text", FALSE,
          [MaxLength(300) EXCEPT !.requiredIf = RequiredIf("actionType", Str("postback"))])>>

\* the item fields of a button; style and height are required in the single
\* poster and optional in the carousel
ButtonFields(styleRequired) ==
  <<Field("label", "text", TRUE, MaxLength(20)),
    Field("actionType", "select", TRUE, NoConstraints)>>
  \o ActionFields
  \o <<Field("style", "select", styleRequired, NoConstraints),
       Field("color", "color", FALSE, NoConstraints),
       Field("height", "select", styleRequired, NoConstraints),
       Field("buttonPatch", "json", FALSE, NoConstraints)>>

\* the sections "shareUi" and "advanced" both schemas end with
TrailingSections ==
  <<PlainSection("shareUi",
      <<Field("shareUi.iconUrl", "imageUrl", FALSE, HttpsOnly),
        Field("shareUi.primaryButtonText", "text", TRUE, MaxLength(12)),
        Field("shareUi.moreText", "text", TRUE, MaxLength(12))>>),
    PlainSection("advanced",
      <<Field("advanced.messagePatch", "json", FALSE, NoConstraints)>>)>>

carouselSchema ==
  Schema(
    <<PlainSection("meta",
        <<Field("altText", "text", TRUE, MaxLength(60)),
          Field("title", "text", TRUE, MaxLength(40)),
          Field("subtitle", "text", FALSE, MaxLength(60))>>),
      PlainSection("hero",
        <<Field("hero.aspectRatio", "select", TRUE, NoConstraints),
          Field("hero.aspectMode", "select", TRUE, NoConstraints)>>),
      PlainSection("style",
        <<Field("style.headline.size", "select", TRUE, NoConstraints),
          Field("style.headline.weight", "select", TRUE, NoConstraints),
          Field("style.headline.color", "color", TRUE, NoConstraints),
          Field("style.desc.size", "select", TRUE, NoConstraints),
          Field("style.desc.color", "color", TRUE, NoConstraints),
          Field("style.bubble.bodyBgColor", "color", TRUE, NoConstraints),
          Field("style.button.style", "select", TRUE, NoConstraints),
          Field("style.button.color", "color", FALSE, NoConstraints),
          Field("style.button.height", "select", TRUE, NoConstraints)>>),
      RepeatableSection("pages", "pages", ItemBounds(1, 10),
        <<Field("headline", "text", TRUE, MaxLength(40)),
          Field("headlineSize", "select", FALSE, NoConstraints),
          Field("headlineWeight", "select", FALSE, NoConstraints),
          Field("headlineColor", "color", FALSE, NoConstraints),
          Field("desc", "textarea", FALSE, MaxLength(300)),
          Field("descSize", "select", FALSE, NoConstraints),
          Field("descColor", "color", FALSE, NoConstraints),
          Field("imageUrl", "imageUrl", TRUE, HttpsOnly),
          Field("imageAspectRatio", "select", FALSE, NoConstraints),
          Field("imageAspectMode", "select", FALSE, NoConstraints),
          Field("bodyBgColor", "color", FALSE, NoConstraints),
          RepeatableField("cta", FALSE, ItemBounds(0, 4), ButtonFields(FALSE))>>)>>
    \o TrailingSections)

singlePosterSchema ==
  Schema(
    <<PlainSection("meta", <<Field("altText", "text", TRUE, MaxLength(60))>>),
      PlainSection("hero",
        <<Field("heroImageUrl", "imageUrl", TRUE, HttpsOnly),
          Field("heroAspectRatio", "select", TRUE, NoConstraints),
          Field("heroAspectMode", "select", TRUE, NoConstraints)>>),
      PlainSection("content",
        <<Field("title", "text", TRUE, MaxLength(40)),
          Field("titleSize", "select", TRUE, NoConstraints),
          Field("titleColor", "color", TRUE, NoConstraints),
          Field("description", "textarea", FALSE, MaxLength(400)),
          Field("descriptionSize", "select", TRUE, NoConstraints),
          Field("descriptionColor", "color", TRUE, NoConstraints),
          Field("date", "text", FALSE, MaxLength(40)),
          Field("location", "text", FALSE, MaxLength(60)),
          Field("bodyBgColor", "color", TRUE, NoConstraints)>>),
      RepeatableSection("buttons", "buttons", ItemBounds(0, 4), ButtonFields(TRUE))>>
    \o TrailingSections)

(* ---------------------------------------------------------------------- *)
(* compile.ts: resolveTemplateDefinition, compileAndValidate               *)
(* ---------------------------------------------------------------------- *)

\* the markers looked for in a template name, written in ASCII (pinyin) for
\* the Chinese words of the source: "multi-page", "single-page", "poster"
MultiPageMarker == "duoye"

SinglePageMarker == "danye"

PosterMarker == "haibao"

\* a Template record as far as the core reads it; name, description and
\* templateText are string values, or undefined
Template(name, description, templateText, schema) ==
  [name |-> name, description |-> description, templateText |-> templateText,
   schema |-> schema]

ResolvedTemplate(templateText, schema, kind) ==
  [templateText |-> templateText, schema |-> schema, kind |-> kind]

\* (x || '').toLowerCase()
LowerOrEmpty(x) == IF Truthy(x) THEN ToLowerCase(x.v) ELSE ""

\* the single-page markers are tried before the carousel markers
ResolveSingleFirst(template, name, desc) ==
  IF IsStr(template.templateText) /\ Includes(template.templateText.v, "{{")
  THEN ResolvedTemplate(template.templateText, template.schema, "custom")
  ELSE IF \/ Includes(name, SinglePageMarker) \/ Includes(name, PosterMarker)
          \/ Includes(desc, "single")
       THEN ResolvedTemplate(Str(singlePosterTemplateText), singlePosterSchema, "single")
  ELSE IF \/ Includes(name, "carousel") \/ Includes(name, MultiPageMarker)
          \/ Includes(desc, "carousel")
       THEN ResolvedTemplate(Str(carouselTemplateText), carouselSchema, "carousel")
  ELSE ResolvedTemplate(template.templateText, template.schema, "custom")

\* the choice by the lower-cased name and description
ResolveByName(template, name, desc) ==
  IF IsStr(template.templateText) /\ Includes(template.templateText.v, "{{")
  THEN ResolvedTemplate(template.templateText, template.schema, "custom")
  ELSE IF \/ Includes(name, "carousel") \/ Includes(name, MultiPageMarker)
          \/ Includes(desc, "carousel")
       THEN ResolvedTemplate(Str(carouselTemplateText), carouselSchema, "carousel")
  ELSE IF \/ Includes(name, SinglePageMarker) \/ Includes(name, PosterMarker)
          \/ Includes(desc, "single")
       THEN ResolvedTemplate(Str(singlePosterTemplateText), singlePosterSchema, "single")
  ELSE ResolvedTemplate(template.templateText, template.schema, "custom")

resolveTemplateDefinition(template) ==
  ResolveByName(template, LowerOrEmpty(template.name), LowerOrEmpty(template.description))

\* an array of errors, as the renderer and the message validation return it
ErrorArray(errors) == [t |-> "Array", errors |-> errors]

\* ...x in an array literal: the elements of an array; a TypeError for a
\* value that is not iterable, as the { ok, errors } object is
Spread(x) ==
  IF x.t = "Array" THEN Returned(x.errors)
  ELSE Threw("TypeError: object is not iterable")

CompileThrew(why, resolved) ==
  [threw |-> TRUE, why |-> why, message |-> Null, errors |-> <<>>, resolved |-> resolved]

CompileReturned(message, errors, resolved) ==
  [threw |-> FALSE, why |-> "", message |-> message, errors |-> errors,
   resolved |-> resolved]

\* return { message, errors: all, resolved }, all being the spread list
CompileResult(resolved, message, all) ==
  IF all.threw THEN CompileThrew(all.why, resolved)
  ELSE CompileReturned(message, all.errors, resolved)

\* the spread of the three results into one array
CompileSpread(resolved, schemaErrors, rendered, flexErrors) ==
  IF schemaErrors.threw THEN CompileThrew(schemaErrors.why, resolved)
  ELSE IF flexErrors.threw THEN CompileThrew(flexErrors.why, resolved)
  ELSE CompileResult(resolved, rendered.message,
                     Then(Spread(schemaErrors.value),
                          Then(Spread(ErrorArray(rendered.errors)),
                               Spread(ErrorArray(flexErrors.errors)))))

\* const flexErrors = message ? validateFlexForShareTargetPicker(message) : []
CompileRendered(resolved, schemaErrors, rendered) ==
  CompileSpread(resolved, schemaErrors, rendered,
                IF Truthy(rendered.message)
                THEN validateFlexForShareTargetPicker(rendered.message)
                ELSE Returned(<<>>))

\* the schema validation and the render of the resolved template
CompileResolved(resolved, data) ==
  CompileRendered(resolved, validateSchemaData(resolved.schema, data),
                  renderFlexMessage(resolved.templateText, data))

\* the three steps run in order; an exception of a step, or of the spread
\* that builds the error list, leaves the call
compileAndValidate(template, data) ==
  CompileResolved(resolveTemplateDefinition(template), data)

(* ---------------------------------------------------------------------- *)
(* Specification SpecValidate: validateField and validateSchemaData applied *)
(* to inputs drawn from bounded sets.                                      *)
(* ---------------------------------------------------------------------- *)

\* the largest maxLength constraint drawn
MaxLengthBound == 2

\* the largest minItems / maxItems constraint drawn
MaxItemsBound == 2

MinLengthDrawn == 3

ConstraintsDrawn ==
  { [NoConstraints EXCEPT !.maxLength = ml, !.minLength = mn, !.pattern = pt,
                          !.httpsOnly = ho, !.requiredIf = rq] :
      ml \in {None} \cup 0..MaxLengthBound,
      mn \in {None, MinLengthDrawn},
      pt \in {"", DigitsPattern, BadPattern},
      ho \in BOOLEAN,
      rq \in {NoRequiredIf, RequiredIf("actionType", Str("uri"))} }

\* the item fields of a button list, as in the built-in schemas
ButtonItemFields ==
  <<Field("label", "text", TRUE, [NoConstraints EXCEPT !.maxLength = 2]),
    Field("actionType", "select", TRUE, NoConstraints),
    Field("url", "url", FALSE,
          [NoConstraints EXCEPT !.httpsOnly = TRUE,
                                !.requiredIf = RequiredIf("actionType", Str("uri"))])>>

FieldsDrawn ==
  { Field("url", ty, rq, c) :
      ty \in {"text", "url", "color", "json", "number"}, rq \in BOOLEAN,
      c \in ConstraintsDrawn }
  \cup
  { RepeatableField("cta", rq, [NoConstraints EXCEPT !.minItems = mi, !.maxItems = ma],
                    ButtonItemFields) :
      rq \in BOOLEAN, mi \in {None} \cup 0..MaxItemsBound, ma \in {None} \cup 0..MaxItemsBound }

Button(label, actionType, url) ==
  Obj(<<KV("label", label), KV("actionType", actionType), KV("url", url)>>)

ButtonsDrawn ==
  { Button(Str("Go"), Str("uri"), Str("https://e.com")),
    Button(Str("Go"), Str("uri"), Str("")),
    Button(Str("Go"), Str("message"), Undef),
    Button(Str("Gone"), Str("uri"), Str("http://e.com")) }

ValuesDrawn ==
  { Undef, Null, Str(""), Str("ab"), Str("1234"), Str("https://e.com"),
    Str("http://e.com"), Str("e.com"), Str("#a1B2c3"), Str("{\"a\":1}"), Num(5),
    Obj(<<>>), Arr(<<>>) }
  \cup { Arr(<<b>>) : b \in ButtonsDrawn }
  \cup { Arr(<<b1, b2, b3>>) : b1 \in {Button(Str("Go"), Str("uri"), Str(""))},
                               b2 \in ButtonsDrawn,
                               b3 \in {Button(Str(""), Str("uri"), Undef)} }

ContextsDrawn ==
  { Undef, Obj(<<>>),
    Obj(<<KV("actionType", Str("uri"))>>),
    Obj(<<KV("actionType", Str("message"))>>) }

FieldCalls ==
  [field : FieldsDrawn, value : ValuesDrawn, path : {"", "pages[0].url"},
   context : ContextsDrawn]

\* the dependent field of the built-in button schemas, placed both in a plain
\* section (scope: top-level data) and in a repeatable section (scope: the item)
DependentUrl ==
  Field("url", "url", FALSE,
        [NoConstraints EXCEPT !.httpsOnly = TRUE,
                              !.requiredIf = RequiredIf("actionType", Str("uri"))])

SchemasDrawn ==
  { Schema(<<PlainSection("link", <<Field("actionType", "select", FALSE, NoConstraints),
                                    DependentUrl>>),
             RepeatableSection("buttons", "buttons",
                               [NoConstraints EXCEPT !.minItems = mi, !.maxItems = ma],
                               ButtonItemFields)>>) :
      mi \in {None} \cup 0..MaxItemsBound, ma \in {None} \cup 0..MaxItemsBound }

ActionTypesDrawn == {Undef, Str("uri"), Str("message")}

UrlsDrawn == {Undef, Str(""), Str("https://e.com"), Str("http://e.com")}

SchemaDataDrawn ==
  { Obj(<<KV("actionType", at), KV("url", u), KV("buttons", bs)>>) :
      at \in ActionTypesDrawn, u \in UrlsDrawn,
      bs \in {Undef, Str("x"), Arr(<<>>)}
             \cup { Arr(<<b>>) : b \in ButtonsDrawn }
             \cup { Arr(<<b1, b2>>) : b1 \in ButtonsDrawn, b2 \in ButtonsDrawn } }

SchemaCalls == [schema : SchemasDrawn, data : SchemaDataDrawn]

Pending == Returned(<<>>)

InitValidate ==
  /\ pc = "ready"
  /\ output = Pending
  /\ \/ fn = "validateField" /\ input \in FieldCalls
     \/ fn = "validateSchemaData" /\ input \in SchemaCalls

CallValidateField ==
  /\ pc = "ready" /\ fn = "validateField"
  /\ output' = validateField(input.field, input.value, input.path, input.context)
  /\ pc' = "done"
  /\ UNCHANGED <<fn, input>>

CallValidateSchemaData ==
  /\ pc = "ready" /\ fn = "validateSchemaData"
  /\ output' = validateSchemaData(input.schema, input.data)
  /\ pc' = "done"
  /\ UNCHANGED <<fn, input>>

NextValidate == CallValidateField \/ CallValidateSchemaData

SpecValidate == InitValidate /\ [][NextValidate]_vars

DoneField == pc = "done" /\ fn = "validateField"

DoneSchema == pc = "done" /\ fn = "validateSchemaData"

\* path || field.key, the path validateField reports
DisplayPathOf(call) == IF call.path # "" THEN call.path ELSE call.field.key

\* C8: a required field with an empty value yields exactly one error, the
\* required error at the field's path, whatever constraints it declares, and
\* no other check runs (in particular none that could throw).
C8_RequiredShortCircuit ==
  (DoneField /\ input.field.required /\ IsEmptyValue(input.value))
    => /\ ~output.threw
       /\ output.errors = <<Err(DisplayPathOf(input), "required", input.field.key)>>

\* a required empty field that also declares a minimum length, a pattern that
\* does not compile and a conditional requirement has been validated
C8_Witness ==
  /\ DoneField /\ input.field.required /\ input.value = Str("")
  /\ input.field.constraints.minLength = MinLengthDrawn
  /\ input.field.constraints.pattern = BadPattern
  /\ input.field.constraints.requiredIf.present
  /\ Len(output.errors) = 1

\* the errors of a list reported at one path
ErrorsAt(errors, path) == SelectSeq(errors, LAMBDA e : e.path = path)

\* the field is left empty while the sibling actionType of its scope is 'uri'
UriWithoutUrl(scope) ==
  /\ StrictEq(getNestedValue(scope, "actionType"), Str("uri"))
  /\ IsEmptyValue(getNestedValue(scope, "url"))

\* C9: a non-required field with requiredIf {when: 'actionType', is: 'uri'} and
\* an empty value yields exactly one required error when the actionType of its
\* own scope is 'uri' and no error when it differs; validateSchemaData uses the
\* top-level data as scope for a plain section and the item for a repeatable one.
C9_ConditionalRequirement ==
  /\ (DoneField /\ ~input.field.required /\ input.field.constraints.requiredIf.present
        /\ input.context.t = "obj" /\ IsEmptyValue(input.value))
       => /\ ~output.threw
          /\ output.errors =
               IF StrictEq(getNestedValue(input.context, "actionType"), Str("uri"))
               THEN <<Err(DisplayPathOf(input), "required", input.field.key)>>
               ELSE <<>>
  /\ DoneSchema
       => /\ ~output.threw
          /\ IsEmptyValue(getNestedValue(input.data, "url"))
               => ErrorsAt(output.value.errors, "url") =
                    IF UriWithoutUrl(input.data) THEN <<Err("url", "required", "url")>>
                    ELSE <<>>
          /\ LET items == getNestedValue(input.data, "buttons")
             IN IsArr(items)
                  => \A i \in 1..Len(items.v) :
                       LET path == "buttons[" \o ToString(i - 1) \o "].url"
                       IN IsEmptyValue(getNestedValue(items.v[i], "url"))
                            => ErrorsAt(output.value.errors, path) =
                                 IF UriWithoutUrl(items.v[i])
                                 THEN <<Err(path, "required", "url")>>
                                 ELSE <<>>

\* both outcomes in one validateSchemaData call: the top-level scope says
\* 'message' (no error for the empty top-level url) while an item says 'uri'
\* (required error for the item's empty url)
C9_Witness ==
  /\ DoneSchema
  /\ getNestedValue(input.data, "actionType") = Str("message")
  /\ getNestedValue(input.data, "url") = Str("")
  /\ ErrorsAt(output.value.errors, "url") = <<>>
  /\ getNestedValue(input.data, "buttons[0].actionType") = Str("uri")
  /\ getNestedValue(input.data, "buttons[0].url") = Str("")
  /\ ErrorsAt(output.value.errors, "buttons[0].url")
       = <<Err("buttons[0].url", "required", "url")>>

\* the errors a bound on the number of items calls for, at path and key
BoundErrors(constraints, count, path, key) ==
  OneIf(constraints.minItems # None /\ count < constraints.minItems, Err(path, "minItems", key))
  \o OneIf(constraints.maxItems # None /\ count > constraints.maxItems,
           Err(path, "maxItems", key))

\* the errors of the fields of every item are those of validateField for the
\* sub-value, at the path "{path}[{index}].{key}" and with the item as scope
ItemsValidated(fields, items, path, errors) ==
  \A i \in 1..Len(items) : \A j \in 1..Len(fields) :
    LET subPath == path \o "[" \o ToString(i - 1) \o "]." \o fields[j].key
    IN ErrorsAt(errors, subPath)
         = validateField(fields[j], getNestedValue(items[i], fields[j].key),
                         subPath, items[i]).errors

\* C18: validateField on a field of type 'repeatable' requires an array: a
\* non-empty value that is not an array yields an error; for an array value
\* minItems and maxItems are each checked and every item is validated against
\* itemSchema.fields with that item as sibling scope and the error path
\* "{path}[{index}].{subfieldKey}".
C18_RepeatableField ==
  (DoneField /\ input.field.type = "repeatable" /\ ~IsEmptyValue(input.value))
    => /\ ~output.threw
       /\ IF ~IsArr(input.value) THEN Len(output.errors) >= 1
          ELSE /\ ErrorsAt(output.errors, DisplayPathOf(input))
                    = BoundErrors(input.field.constraints, Len(input.value.v),
                                  DisplayPathOf(input), input.field.key)
               /\ ItemsValidated(input.field.itemSchema.fields, input.value.v,
                                 DisplayPathOf(input), output.errors)

\* the errors reported for places inside the items of the section
ItemErrors(errors, key) ==
  SelectSeq(errors, LAMBDA e : Len(e.path) > Len(key) /\ StartsAt(e.path, 1, key \o "["))

\* C19: validateSchemaData on a repeatable section: when the value at
\* section.key is not an array, a minItems error at path section.key is
\* reported only if minItems > 0, and no item is validated; when it is an
\* array, a minItems violation and a maxItems violation are each reported at
\* path section.key, and the fields of every item are validated, also when a
\* bound is violated, with the paths "{section.key}[{index}].{field.key}".
C19_RepeatableSection ==
  DoneSchema
    => /\ ~output.threw
       /\ \A n \in 1..Len(input.schema.sections) :
            LET section == input.schema.sections[n]
                items == getNestedValue(input.data, section.key)
            IN (section.repeatable /\ section.key # "")
                 => IF ~IsArr(items)
                    THEN /\ ErrorsAt(output.value.errors, section.key)
                              = OneIf(section.constraints.minItems # None
                                        /\ section.constraints.minItems > 0,
                                      Err(section.key, "minItems", section.key))
                         /\ ItemErrors(output.value.errors, section.key) = <<>>
                    ELSE /\ ErrorsAt(output.value.errors, section.key)
                              = BoundErrors(section.constraints, Len(items.v),
                                            section.key, section.key)
                         /\ ItemsValidated(section.itemSchema.fields, items.v, section.key,
                                           output.value.errors)

\* C19 witness: one item where at least two and at most none are allowed:
\* both bounds are reported and the too long label of the item as well
C19_Witness ==
  /\ DoneSchema /\ ~output.threw
  /\ input.schema.sections[2].constraints.minItems = 2
  /\ input.schema.sections[2].constraints.maxItems = 0
  /\ getNestedValue(input.data, "buttons.length") = Num(1)
  /\ getNestedValue(input.data, "buttons[0].label") = Str("Gone")
  /\ ErrorsAt(output.value.errors, "buttons")
       = <<Err("buttons", "minItems", "buttons"), Err("buttons", "maxItems", "buttons")>>
  /\ ErrorsAt(output.value.errors, "buttons[0].label")
       = <<Err("buttons[0].label", "maxLength", "label")>>

(* ---------------------------------------------------------------------- *)
(* Specification SpecRender: renderFlexMessage applied to template texts   *)
(* and data drawn from bounded sets.                                       *)
(* ---------------------------------------------------------------------- *)

\* template texts of the three grammars, blank ones and an absent one
TemplateTextsDrawn ==
  {Undef, Str(""), Str("  "),
   Str("{oops"),
   Str("null"),
   Str("{\"type\":\"flex\",\"altText\":\"a\",\"contents\":{\"type\":\"bubble\"}}"),
   Str("${data.title}"),
   Str("{\"altText\":\"${data.altText}\",\"contents\":{\"n\":${data.n}}}"),
   Str("{\"a\":\"${data.a.b}\",\"t\":\"${data.title}\",\"c\":\"${data.a.b}\"}"),
   Str("{\"t\":${data.title}}"),
   Str("{\"altText\":\"a\",\"body\":{\"color\":\"red\",\"deep\":{\"k\":1},\"__patch\":{\"color\":\"blue\"}}}"),
   Str("[{\"altText\":\"a\"}]"),
   Str("{{{json title}"),
   Str("{{{json title}}}"),
   Str("{\"altText\":{{{json altText}}},\"contents\":{\"t\":\"{{title}}\",\"x\":\"${data.zz}\"}}"),
   Str(singlePosterTemplateText),
   Str(carouselTemplateText)}

\* the button of the end-to-end scenario, and one carrying an inline patch
GoButton ==
  Obj(<<KV("label", Str("Go")), KV("actionType", Str("uri")), KV("url", Str("https://e.com"))>>)

PatchedButton ==
  Obj(<<KV("label", Str("Go")), KV("actionType", Str("message")), KV("text", Str("hi")),
        KV("buttonPatch", Str("{\"margin\":\"md\"}"))>>)

\* the data of end-to-end scenario A
ScenarioAData ==
  Obj(<<KV("altText", Str("x")), KV("heroImageUrl", Str("https://i/1.png")),
        KV("title", Str("T")), KV("buttons", Arr(<<GoButton>>))>>)

RenderDataDrawn ==
  {Obj(<<>>),
   Obj(<<KV("title", Str("T"))>>),
   Obj(<<KV("title", Str(""))>>),
   Obj(<<KV("title", Num(7)), KV("altText", Str("x")), KV("n", Num(1))>>),
   Obj(<<KV("title", Str("T")), KV("a", Obj(<<KV("b", Str("$&"))>>))>>),
   Obj(<<KV("altText", Str("x")), KV("n", Arr(<<Num(1)>>)),
         KV("advanced", Obj(<<KV("messagePatch", Str("{\"altText\":\"p\"}"))>>))>>),
   Obj(<<KV("title", Str("T")),
         KV("advanced", Obj(<<KV("messagePatch", Obj(<<KV("altText", Num(5))>>))>>))>>),
   Obj(<<KV("title", Str("T")),
         KV("advanced",
            Obj(<<KV("messagePatch", Str("{\"body\":{\"color\":\"green\"},\"n\":[2]}"))>>))>>),
   Obj(<<KV("advanced", Obj(<<KV("messagePatch", Str("{oops"))>>))>>),
   Obj(<<KV("title", Str("T")),
         KV("advanced",
            Obj(<<KV("messagePatch",
                     Obj(<<KV("body", Obj(<<KV("__patch", Obj(<<KV("color", Str("green"))>>))>>))>>))>>))>>),
   Obj(<<KV("advanced", Obj(<<KV("messagePatch", Str("{\"__patch\":{\"z\":1}}"))>>))>>),
   Obj(<<KV("advanced", Obj(<<KV("messagePatch", Str("[1]"))>>))>>),
   Obj(<<KV("advanced", Obj(<<KV("messagePatch", Num(7))>>))>>),
   Obj(<<KV("advanced", Str("x"))>>),
   ScenarioAData,
   Obj(<<KV("altText", Str("x")), KV("title", Str("T")),
         KV("buttons", Arr(<<GoButton, PatchedButton>>))>>),
   Obj(<<KV("pages", Arr(<<>>))>>),
   Obj(<<KV("altText", Str("x")),
         KV("pages", Arr(<<Obj(<<KV("headline", Str("H")),
                                 KV("imageUrl", Str("https://i/1.png")),
                                 KV("cta", Arr(<<PatchedButton>>))>>)>>))>>)}

RenderCalls == [templateText : TemplateTextsDrawn, data : RenderDataDrawn]

InitRender ==
  /\ pc = "ready"
  /\ fn = "renderFlexMessage"
  /\ input \in RenderCalls
  /\ output = RenderResult(Null, <<>>)

CallRenderFlexMessage ==
  /\ pc = "ready" /\ fn = "renderFlexMessage"
  /\ output' = renderFlexMessage(input.templateText, input.data)
  /\ pc' = "done"
  /\ UNCHANGED <<fn, input>>

NextRender == CallRenderFlexMessage

SpecRender == InitRender /\ [][NextRender]_vars

DoneRender == pc = "done" /\ fn = "renderFlexMessage"

\* a text the renderer treats as a legacy template
IsLegacyText(templateText) ==
  /\ IsStr(templateText) /\ Trim(templateText.v) # ""
  /\ ~Includes(templateText.v, "{{") /\ Includes(templateText.v, "${data.")

\* the paths of the ${data.<path>} occurrences of text that are undefined in
\* data, in the order of the text
RECURSIVE UnresolvedFrom(_, _, _)
UnresolvedFrom(text, data, i) ==
  LET m == NextVariable(text, i)
  IN IF ~m.found THEN <<>>
     ELSE (IF getNestedValue(data, m.path).t = "undef" THEN <<m.path>> ELSE <<>>)
          \o UnresolvedFrom(text, data, m.stop + 1)

Unresolved ==
  IF IsLegacyText(input.templateText)
  THEN UnresolvedFrom(input.templateText.v, input.data, 1)
  ELSE <<>>

LabelsDrawn == {Str("Go"), Str(""), Num(5)}

\* uri values: absent, empty, https, http, not a URL, another scheme, and
\* values that are no strings
UrisDrawn ==
  {Undef, Str(""), Str("https://e.com"), Str("http://e.com"), Str("nope"), Str("tel:123"),
   Num(5), Arr(<<Str("https://e.com")>>)}

\* an action of type 'uri'; an undefined uri is an absent key
UriAction(label, uri) ==
  Obj(<<KV("type", Str("uri")), KV("label", label)>>
      \o (IF uri.t = "undef" THEN <<>> ELSE <<KV("uri", uri)>>))

ActionsDrawn ==
  {UriAction(l, u) : l \in LabelsDrawn, u \in UrisDrawn}
  \cup {Obj(<<KV("type", Str("message")), KV("label", Str("Go")), KV("text", x)>>) :
          x \in {Str("hi"), Str(" "), Num(5)}}
  \cup {Obj(<<KV("type", Str("postback")), KV("label", Str("Go")), KV("data", x)>>) :
          x \in {Str("d"), Null, Bool(TRUE)}}

\* where an action sits: the footer button of a bubble, an element of a
\* top-level array, the contents object itself, inside another action
ContentsOf(action) ==
  {Obj(<<KV("type", Str("bubble")),
         KV("footer", Obj(<<KV("type", Str("box")),
                            KV("contents", Arr(<<Obj(<<KV("type", Str("button")),
                                                       KV("action", action)>>)>>))>>))>>),
   Arr(<<Obj(<<KV("type", Str("button")), KV("action", UriAction(Str("A"), Str("https://e.com")))>>),
         Obj(<<KV("type", Str("button")), KV("action", action)>>)>>),
   Obj(<<KV("action", action)>>),
   Obj(<<KV("action", Obj(<<KV("type", Str("message")), KV("label", Str("Go")),
                            KV("text", Str("hi")),
                            KV("inner", Obj(<<KV("action", action)>>))>>))>>)}

\* the text of n copies of the character c
RECURSIVE Repeat(_, _)
Repeat(c, n) ==
  IF n = 0 THEN ""
  ELSE IF n % 2 = 1 THEN c \o Repeat(c, n - 1)
  ELSE Repeat(c, n \div 2) \o Repeat(c, n \div 2)

\* alt texts: short, blank, absent, no string, and of the lengths at and
\* around the limit
AltTextsDrawn ==
  {Str("a"), Str(""), Str(" "), Undef, Null, Num(5),
   Str(Repeat("a", AltTextLimit - 1)), Str(Repeat("a", AltTextLimit)),
   Str(Repeat("a", AltTextLimit + 1)), Str(" " \o Repeat("a", AltTextLimit - 1)),
   Str(Repeat(" ", AltTextLimit + 1))}

MessagesDrawn ==
  {Obj(<<KV("type", Str("flex")), KV("altText", a), KV("contents", c)>>) :
     a \in AltTextsDrawn, c \in UNION {ContentsOf(x) : x \in ActionsDrawn}}

InitFlex ==
  /\ pc = "ready"
  /\ fn = "validateFlexForShareTargetPicker"
  /\ input \in MessagesDrawn
  /\ output = Pending

CallValidateFlex ==
  /\ pc = "ready" /\ fn = "validateFlexForShareTargetPicker"
  /\ output' = validateFlexForShareTargetPicker(input)
  /\ pc' = "done"
  /\ UNCHANGED <<fn, input>>

NextFlex == CallValidateFlex

SpecFlex == InitFlex /\ [][NextFlex]_vars

DoneFlex == pc = "done" /\ fn = "validateFlexForShareTargetPicker"

\* every object at or under value, with its path, whatever key leads to it
RECURSIVE ObjectsUnder(_, _)
RECURSIVE ObjectsInItems(_, _, _)
RECURSIVE ObjectsInEntries(_, _)

ObjectsInItems(items, path, index) ==
  IF index > Len(items) THEN <<>>
  ELSE ObjectsUnder(items[index], path \o "[" \o ToString(index - 1) \o "]")
       \o ObjectsInItems(items, path, index + 1)

ObjectsInEntries(pairs, path) ==
  IF Len(pairs) = 0 THEN <<>>
  ELSE ObjectsUnder(Head(pairs).v, path \o "." \o Head(pairs).k)
       \o ObjectsInEntries(Tail(pairs), path)

ObjectsUnder(value, path) ==
  CASE value.t = "arr" -> ObjectsInItems(value.v, path, 1)
    [] value.t = "obj" -> <<[path |-> path, obj |-> value]>> \o ObjectsInEntries(value.v, path)
    [] OTHER -> <<>>

\* an absolute https URL
IsHttpsUrl(uri) == IsStr(uri) /\ ParseURL(uri.v).ok /\ ParseURL(uri.v).protocol = "https:"

\* C10: for every object anywhere under message.contents that carries an
\* action of type 'uri', a present uri that is no absolute https URL and a
\* missing uri each yield an error at the object's path followed by
\* '.action.uri', and an absolute https uri yields no error there.
C10_HttpsEnforcement ==
  DoneFlex =>
    /\ ~output.threw
    /\ LET found == ObjectsUnder(GetProp(input, "contents"), "contents")
       IN \A i \in 1..Len(found) :
            LET action == GetProp(found[i].obj, "action")
                at == ErrorsAt(output.errors, found[i].path \o ".action.uri")
            IN (action.t = "obj" /\ StrictEq(GetProp(action, "type"), Str("uri"))) =>
                 IF IsHttpsUrl(GetProp(action, "uri")) THEN at = <<>> ELSE at # <<>>

\* a label, text or data that is absent or blank
BlankValue(x) == ~Truthy(x) \/ (IsStr(x) /\ Trim(x.v) = "")

\* the error list holds no error twice
NoErrorTwice(errors) ==
  \A i \in 1..Len(errors) : \A j \in 1..Len(errors) : (errors[i] = errors[j]) => (i = j)

\* C20: the walk over message.contents goes through arrays and nested objects
\* alike and visits every descendant exactly once: every object at any depth
\* that carries an action has that action checked exactly once (a blank label
\* gives exactly one error at the object's path followed by '.action.label',
\* a label that is not blank gives none), objects inside the value of another
\* object's action included, and no error is reported twice.
C20_EveryActionCheckedOnce ==
  (DoneFlex /\ ~output.threw) =>
    /\ NoErrorTwice(output.errors)
    /\ LET found == ObjectsUnder(GetProp(input, "contents"), "contents")
       IN \A i \in 1..Len(found) :
            LET action == GetProp(found[i].obj, "action")
                at == ErrorsAt(output.errors, found[i].path \o ".action.label")
            IN action.t = "obj" =>
                 Len(at) = IF BlankValue(GetProp(action, "label")) THEN 1 ELSE 0

\* C21: a missing, empty or whitespace-only altText yields exactly one error
\* at path 'altText'; an altText longer than 400 characters yields exactly one
\* error at path 'altText'; an altText that is not blank and has at most 400
\* characters (400 accepted, 401 rejected) yields no error at 'altText'.
C21_AltTextBounds ==
  (DoneFlex /\ GetProp(input, "altText").t \in {"undef", "null", "str"})
    => /\ ~output.threw
       /\ Len(ErrorsAt(output.errors, "altText"))
            = IF \/ BlankValue(GetProp(input, "altText"))
                 \/ Len(GetProp(input, "altText").v) > AltTextLimit
              THEN 1 ELSE 0

(* ---------------------------------------------------------------------- *)
(* Specification Spec: compileAndValidate applied to template records and  *)
(* form data drawn from bounded sets.                                      *)
(* ---------------------------------------------------------------------- *)

\* ScenarioAData with every required field of singlePosterSchema filled in
FullPosterData ==
  Obj(<<KV("altText", Str("x")), KV("heroImageUrl", Str("https://i/1.png")),
        KV("heroAspectRatio", Str("20:13")), KV("heroAspectMode", Str("cover")),
        KV("title", Str("T")), KV("titleSize", Str("xl")), KV("titleColor", Str("#111111")),
        KV("descriptionSize", Str("sm")), KV("descriptionColor", Str("#666666")),
        KV("bodyBgColor", Str("#ffffff")),
        KV("buttons", Arr(<<Obj(GoButton.v \o <<KV("style", Str("primary")),
                                               KV("height", Str("sm"))>>)>>)),
        KV("shareUi", Obj(<<KV("primaryButtonText", Str("Share")),
                            KV("moreText", Str("More"))>>))>>)

\* the data of end-to-end scenario B
ScenarioBData == Obj(<<KV("pages", Arr(<<>>))>>)

CompileDataDrawn ==
  {Obj(<<>>),
   ScenarioAData,
   FullPosterData,
   ScenarioBData,
   Obj(<<KV("altText", Str("x")), KV("title", Str("T")),
         KV("pages", Arr(<<Obj(<<KV("headline", Str("H")),
                                 KV("imageUrl", Str("http://i/1.png")),
                                 KV("cta", Arr(<<GoButton>>))>>)>>))>>),
   Obj(<<KV("altText", Num(5)), KV("label", Num(7)), KV("url", Str("http://e.com")),
         KV("code", Str("12"))>>),
   Obj(<<KV("altText", Str("x")), KV("label", Str("Go")), KV("url", Str("https://e.com")),
         KV("code", Str("ab")),
         KV("advanced", Obj(<<KV("messagePatch", Str("{\"altText\":5}"))>>))>>),
   Obj(FullPosterData.v
       \o <<KV("advanced", Obj(<<KV("messagePatch", Str("{\"altText\":\"p\"}"))>>))>>)}

\* a stored schema with one optional field that carries a pattern
StoredSchema(pattern) ==
  Schema(<<PlainSection("main",
             <<Field("code", "text", FALSE, [NoConstraints EXCEPT !.pattern = pattern])>>)>>)

LegacyText == "{\"type\":\"flex\",\"altText\":\"${data.altText}\",\"contents\":{\"type\":\"bubble\"}}"

RawText == "{\"type\":\"flex\",\"altText\":\"a\",\"contents\":{\"type\":\"bubble\"}}"

CustomText ==
  "{\"type\":\"flex\",\"altText\":{{{json altText}}},\"contents\":{\"type\":\"bubble\",\"footer\":"
  \o "{\"type\":\"button\",\"action\":{\"type\":\"uri\",\"label\":{{{json label}}},"
  \o "\"uri\":{{{json url}}}}}}}"

\* stored records: legacy ones named after the built-in families, the
\* seeded built-in ones, and custom ones
TemplatesDrawn ==
  {Template(Str("Danye Haibao"), Str("event poster"), Str(LegacyText), StoredSchema("")),
   Template(Str("Product Carousel"), Undef, Str(LegacyText), StoredSchema("")),
   Template(Str("Promo"), Str("A single card"), Str(RawText), SchemaWithoutSections),
   Template(Str("duoye Carousel"), Str("pages"), Str(carouselTemplateText), carouselSchema),
   Template(Str("danye haibao"), Str("poster"), Str(singlePosterTemplateText),
            singlePosterSchema),
   Template(Str("Custom"), Str(""), Str(CustomText), StoredSchema(DigitsPattern)),
   Template(Str("Custom"), Str(""), Str(CustomText), StoredSchema(BadPattern)),
   Template(Str("Custom"), Undef, Str(RawText), SchemaWithoutSections),
   Template(Undef, Undef, Undef, StoredSchema(""))}

CompileCalls == [template : TemplatesDrawn, data : CompileDataDrawn]

Init ==
  /\ pc = "ready"
  /\ fn = "compileAndValidate"
  /\ input \in CompileCalls
  /\ output = CompileReturned(Null, <<>>, resolveTemplateDefinition(input.template))

CallCompileAndValidate ==
  /\ pc = "ready" /\ fn = "compileAndValidate"
  /\ output' = compileAndValidate(input.template, input.data)
  /\ pc' = "done"
  /\ UNCHANGED <<fn, input>>

Next == CallCompileAndValidate

Spec == Init /\ [][Next]_vars

DoneCompile == pc = "done" /\ fn = "compileAndValidate"

\* the results of the three steps for the call at hand
SchemaStep ==
  validateSchemaData(resolveTemplateDefinition(input.template).schema, input.data)

RenderStep ==
  renderFlexMessage(resolveTemplateDefinition(input.template).templateText, input.data)

MessageStep ==
  IF RenderStep.message.t = "null" THEN Returned(<<>>)
  ELSE validateFlexForShareTargetPicker(RenderStep.message)

\* C2: compileAndValidate returns the errors schemaErrors ++ renderErrors ++
\* messageErrors in that order, the message-structure validation being run
\* if and only if the rendered message is not null.
C2_ErrorConcatenation ==
  DoneCompile =>
    /\ ~output.threw
    /\ ~SchemaStep.threw /\ ~MessageStep.threw
    /\ output.errors = SchemaStep.value.errors \o RenderStep.errors \o MessageStep.errors

\* C3: compileAndValidate never raises an exception: every failure is
\* returned as a ValidationError of the result.
C3_NeverRaises == DoneCompile => ~output.threw

\* C5: compiling a template that resolves to the built-in single-poster
\* definition with the data of scenario A yields zero errors and a bubble
\* with exactly one footer button whose action.uri is "https://e.com".
C5_ScenarioA ==
  (DoneCompile /\ output.resolved.kind = "single" /\ input.data = ScenarioAData) =>
    /\ ~output.threw
    /\ output.errors = <<>>
    /\ StrictEq(getNestedValue(output.message, "contents.type"), Str("bubble"))
    /\ StrictEq(getNestedValue(output.message, "contents.footer.contents.length"), Num(1))
    /\ StrictEq(getNestedValue(output.message, "contents.footer.contents[0].action.uri"),
                Str("https://e.com"))

\* C6: for a template resolving to the built-in carousel definition and data
\* with pages = [], compileAndValidate returns a non-empty error list with a
\* minItems error at path 'pages', together with the result of the render
\* step.
C6_ScenarioB ==
  (DoneCompile /\ output.resolved.kind = "carousel" /\ input.data = ScenarioBData) =>
    /\ ~output.threw
    /\ \E i \in 1..Len(output.errors) :
         output.errors[i].path = "pages" /\ output.errors[i].kind = "minItems"
    /\ output.message = RenderStep.message

(* ---------------------------------------------------------------------- *)
(* Specification SpecPatch: deepMerge and applyInlinePatches applied to    *)
(* values drawn from bounded sets.                                         *)
(* ---------------------------------------------------------------------- *)

\* the values a key holds: scalars, arrays, and objects one and two deep
MergeValuesDrawn ==
  {Num(0), Str("s"), Null, Arr(<<Num(9)>>), Arr(<<Num(1), Num(2)>>), Obj(<<>>),
   Obj(<<KV("x", Num(0)), KV("y", Num(2))>>), Obj(<<KV("x", Num(1))>>),
   Obj(<<KV("x", Obj(<<KV("p", Num(1))>>)), KV("y", Num(2))>>),
   Obj(<<KV("x", Obj(<<KV("q", Arr(<<Num(3)>>))>>))>>)}

\* objects with the keys a and b, in either order, and the empty object
MergeObjectsDrawn ==
  {Obj(<<>>)}
  \cup {Obj(<<KV("a", v)>>) : v \in MergeValuesDrawn}
  \cup {Obj(<<KV("a", v), KV("b", Num(7))>>) : v \in MergeValuesDrawn}
  \cup {Obj(<<KV("b", Arr(<<Num(8)>>)), KV("a", v)>>) : v \in MergeValuesDrawn}

\* deepMerge(base, patch): also a base or a patch that is no plain object
MergeCalls ==
  {[base |-> a, patch |-> b] : a \in MergeObjectsDrawn, b \in MergeObjectsDrawn}
  \cup {[base |-> a, patch |-> b] : a \in {Num(0), Arr(<<Num(9)>>)}, b \in {Obj(<<KV("a", Num(0))>>)}}
  \cup {[base |-> a, patch |-> b] : a \in {Obj(<<KV("a", Num(0))>>)}, b \in {Null, Arr(<<Num(9)>>), Str("s")}}

\* objects carrying a __patch: an object, a JSON string, values that are not
\* object-shaped, and patches that bring in a further __patch
PatchedObjectsDrawn ==
  {Obj(<<KV("style", Str("primary")), KV("__patch", v)>>) :
     v \in {Obj(<<KV("margin", Str("md"))>>), Str("{\"margin\":\"md\"}"), Str("oops"),
            Num(5), Null, Arr(<<Num(1)>>), Obj(<<KV("style", Str("link"))>>),
            Obj(<<KV("__patch", Obj(<<KV("z", Num(1))>>))>>),
            Str("{\"__patch\":{\"z\":1}}"),
            Obj(<<KV("__patch", Str("{\"z\":1}"))>>),
            Obj(<<KV("style", Obj(<<KV("__patch", Obj(<<KV("z", Num(1))>>))>>))>>)}}
  \cup {Obj(<<KV("c", Obj(<<KV("m", Num(1)), KV("__patch", Obj(<<KV("m", Num(2))>>))>>)),
             KV("__patch", Obj(<<KV("c", Obj(<<KV("m", Num(3)), KV("n", Num(4))>>))>>))>>),
        Obj(<<KV("c", Obj(<<KV("m", Num(1))>>)),
             KV("__patch", Obj(<<KV("c", Obj(<<KV("__patch", Obj(<<KV("m", Num(2))>>))>>))>>))>>),
        Obj(<<KV("style", Str("primary"))>>), Obj(<<>>)}

\* where such an object sits: the root, an element of an array, the contents
\* of a footer, under a key an outer __patch also writes
PatchNodesDrawn ==
  PatchedObjectsDrawn
  \cup {Arr(<<n, Num(5)>>) : n \in PatchedObjectsDrawn}
  \cup {Obj(<<KV("footer", Obj(<<KV("contents", Arr(<<Str("t"), n>>))>>))>>) :
          n \in PatchedObjectsDrawn}
  \cup {Obj(<<KV("body", n), KV("__patch", Obj(<<KV("body", Obj(<<KV("style", Str("outer"))>>))>>))>>) :
          n \in PatchedObjectsDrawn}
  \cup {Num(5), Str("s"), Null}

InitPatch ==
  /\ pc = "ready"
  /\ \/ fn = "deepMerge" /\ input \in MergeCalls
     \/ fn = "applyInlinePatches" /\ input \in PatchNodesDrawn
  /\ output = Pending

CallDeepMerge ==
  /\ pc = "ready" /\ fn = "deepMerge"
  /\ output' = deepMerge(input.base, input.patch)
  /\ pc' = "done"
  /\ UNCHANGED <<fn, input>>

CallApplyInlinePatches ==
  /\ pc = "ready" /\ fn = "applyInlinePatches"
  /\ output' = applyInlinePatches(input)
  /\ pc' = "done"
  /\ UNCHANGED <<fn, input>>

NextPatch == CallDeepMerge \/ CallApplyInlinePatches

SpecPatch == InitPatch /\ [][NextPatch]_vars

DoneMerge == pc = "done" /\ fn = "deepMerge"

DonePatch == pc = "done" /\ fn = "applyInlinePatches"

\* the keys of an object
KeysOf(x) == {x.v[i].k : i \in 1..Len(x.v)}

\* o is the merge of the patch b into the base a, told key by key
RECURSIVE MergedAs(_, _, _)
MergedAs(a, b, o) ==
  /\ isPlainObject(o)
  /\ Len(o.v) = Cardinality(KeysOf(o))
  /\ KeysOf(o) = KeysOf(a) \cup KeysOf(b)
  /\ \A k \in KeysOf(b) :
       IF isPlainObject(GetProp(a, k)) /\ isPlainObject(GetProp(b, k))
       THEN MergedAs(GetProp(a, k), GetProp(b, k), GetProp(o, k))
       ELSE GetProp(o, k) = GetProp(b, k)
  /\ \A k \in KeysOf(a) \ KeysOf(b) : GetProp(o, k) = GetProp(a, k)

\* C11: deepMerge of a base a and a patch b, both plain objects: for every
\* key of b, where the values of a and b are both plain objects they are
\* merged recursively, otherwise (array, scalar, type mismatch) the value of
\* b wins outright, an array being replaced wholesale; the keys only a holds
\* keep their values; the result holds no other key.
C11_DeepMerge ==
  (DoneMerge /\ isPlainObject(input.base) /\ isPlainObject(input.patch))
    => MergedAs(input.base, input.patch, output)

\* C11 witness: the patch {a:{x:1}} has been merged into {a:{x:0,y:2}, b:7}
\* and gave {a:{x:1,y:2}, b:7}
C11_Witness ==
  /\ DoneMerge
  /\ input.base = Obj(<<KV("a", Obj(<<KV("x", Num(0)), KV("y", Num(2))>>)), KV("b", Num(7))>>)
  /\ input.patch = Obj(<<KV("a", Obj(<<KV("x", Num(1))>>))>>)
  /\ output = Obj(<<KV("a", Obj(<<KV("x", Num(1)), KV("y", Num(2))>>)), KV("b", Num(7))>>)

\* no object at or under value holds the key __patch
RECURSIVE NoPatchKey(_)
NoPatchKey(value) ==
  CASE value.t = "arr" -> \A i \in 1..Len(value.v) : NoPatchKey(value.v[i])
    [] value.t = "obj" ->
         /\ "__patch" \notin KeysOf(value)
         /\ \A i \in 1..Len(value.v) : NoPatchKey(value.v[i].v)
    [] OTHER -> TRUE

\* the __patch of an object as an object, a JSON string being parsed
PatchOf(obj) == parseJsonMaybe(GetProp(obj, "__patch"))

\* the object carries a __patch whose value is object-shaped
CarriesPatch(value) ==
  isPlainObject(value) /\ "__patch" \in KeysOf(value) /\ isPlainObject(PatchOf(value))

WithoutPatch(obj) == Obj(SelectSeq(obj.v, LAMBDA kv : kv.k # "__patch"))

\* out is what the pass makes of the node told by the shape of the node: an
\* array element by element, an object carrying an object-shaped __patch as
\* the merge of the patch into the object without the key, passed again, any
\* other object key by key without its __patch key
ExpandedAs(node, out) ==
  CASE node.t = "arr" ->
         /\ IsArr(out) /\ Len(out.v) = Len(node.v)
         /\ \A i \in 1..Len(node.v) : out.v[i] = applyInlinePatches(node.v[i])
    [] CarriesPatch(node) ->
         /\ MergedAs(WithoutPatch(node), PatchOf(node),
                     deepMerge(WithoutPatch(node), PatchOf(node)))
         /\ out = applyInlinePatches(deepMerge(WithoutPatch(node), PatchOf(node)))
         /\ (NoPatchKey(deepMerge(WithoutPatch(node), PatchOf(node)))
               => out = deepMerge(WithoutPatch(node), PatchOf(node)))
    [] node.t = "obj" ->
         /\ isPlainObject(out)
         /\ KeysOf(out) = KeysOf(node) \ {"__patch"}
         /\ \A k \in KeysOf(out) : GetProp(out, k) = applyInlinePatches(GetProp(node, k))
    [] OTHER -> out = node

\* C12: after the inline patch pass every object that carried a __patch
\* (JSON string or object) whose value is object-shaped equals the deep merge
\* of that patch into the object without its __patch key, the __patch keys a
\* merge brought in being expanded as well, and no object of the resulting
\* tree carries a __patch key.
C12_InlinePatchExpansion ==
  DonePatch => (NoPatchKey(output) /\ ExpandedAs(input, output))

\* C12 witness: {style:'primary', __patch:{__patch:{z:1}}} inside the contents
\* of a footer gave {style:'primary', z:1} there
C12_Witness ==
  /\ DonePatch
  /\ input = Obj(<<KV("footer", Obj(<<KV("contents", Arr(<<Str("t"),
                 Obj(<<KV("style", Str("primary")),
                       KV("__patch", Obj(<<KV("__patch", Obj(<<KV("z", Num(1))>>))>>))>>)>>))>>))>>)
  /\ output = Obj(<<KV("footer", Obj(<<KV("contents", Arr(<<Str("t"),
                 Obj(<<KV("style", Str("primary")), KV("z", Num(1))>>)>>))>>))>>)

(* ---------------------------------------------------------------------- *)
(* Claims about renderFlexMessage, checked under SpecRender                *)
(* ---------------------------------------------------------------------- *)

\* C13: in legacy substitution mode, if any ${data.<path>} variable of the
\* template resolves to undefined in data, the whole render fails: the
\* message is null, at least one render error is returned, each telling of a
\* missing value (no partially substituted text is parsed or returned), even
\* when other variables of the same template resolve.
C13_LegacyMissingVariable ==
  (DoneRender /\ Len(Unresolved) > 0)
    => /\ output.message = Null
       /\ Len(output.errors) >= 1
       /\ \A i \in 1..Len(output.errors) : output.errors[i].kind = "missingValue"

\* C13 witness: a legacy text with ${data.altText} and ${data.n} rendered for
\* data that holds altText and no n
C13_Witness ==
  /\ DoneRender
  /\ input.templateText = Str("{\"altText\":\"${data.altText}\",\"contents\":{\"n\":${data.n}}}")
  /\ input.data = ScenarioAData
  /\ Unresolved = <<"n">>
  /\ output = RenderResult(Null, <<MissingValue("n")>>)

\* data.advanced.messagePatch as stored, undefined where data holds none
StoredMessagePatch(data) == GetProp(GetProp(data, "advanced"), "messagePatch")

\* the stored patch is an object, or a string of JSON for an object
ObjectShaped(stored) ==
  IF IsStr(stored) THEN JsonParse(stored.v).ok /\ isPlainObject(JsonParse(stored.v).val)
  ELSE isPlainObject(stored)

ObjectOfPatch(stored) == IF IsStr(stored) THEN JsonParse(stored.v).val ELSE stored

\* every leaf of the patch is the value at the same place of the message
RECURSIVE LeavesOverride(_, _)
LeavesOverride(patch, message) ==
  \A i \in 1..Len(patch.v) :
    IF isPlainObject(patch.v[i].v)
    THEN /\ isPlainObject(GetProp(message, patch.v[i].k))
         /\ LeavesOverride(patch.v[i].v, GetProp(message, patch.v[i].k))
    ELSE GetProp(message, patch.v[i].k) = patch.v[i].v

\* the call came to JSON.parse; the text handed to it
CameToParse ==
  /\ Truthy(input.templateText) /\ Trim(input.templateText.v) # ""
  /\ ~RenderText(input.templateText.v, input.data).stopped

ParsedText == JsonParse(RenderText(input.templateText.v, input.data).text)

\* the message after the inline patches, before the final patch
InlinePatched == applyInlinePatches(ParsedText.val)

\* C17: the final patch is applied after all inline patches and only after a
\* successful JSON parse. When data.advanced.messagePatch (a JSON string or an
\* object) is object-shaped, the message returned is the deep-merge of the
\* patch into the whole inline-patched message, every leaf of the patch
\* overriding what the message held there, values produced by an inline
\* __patch included; when it is absent, not object-shaped or a string that is
\* not valid JSON, the message is the inline-patched one. In both cases no
\* render error is returned. Without a successful parse no message is returned.
C17_FinalPatch ==
  DoneRender
    => IF CameToParse /\ ParsedText.ok
       THEN /\ output.errors = <<>>
            /\ IF ObjectShaped(StoredMessagePatch(input.data))
               THEN /\ output.message
                         = deepMerge(InlinePatched, ObjectOfPatch(StoredMessagePatch(input.data)))
                    /\ isPlainObject(InlinePatched)
                         => LeavesOverride(ObjectOfPatch(StoredMessagePatch(input.data)),
                                           output.message)
               ELSE output.message = InlinePatched
       ELSE output.message = Null

\* C17 witness: a message whose body colour an inline __patch set to blue,
\* rendered with a final patch given as a JSON string that sets it to green
C17_Witness ==
  /\ DoneRender /\ CameToParse /\ ParsedText.ok
  /\ IsStr(StoredMessagePatch(input.data))
  /\ ObjectShaped(StoredMessagePatch(input.data))
  /\ getNestedValue(InlinePatched, "body.color") = Str("blue")
  /\ getNestedValue(output.message, "body.color") = Str("green")
  /\ getNestedValue(output.message, "body.deep.k") = Num(1)
  /\ output.errors = <<>>

(* ---------------------------------------------------------------------- *)
(* setNestedValue                                                          *)
(* ---------------------------------------------------------------------- *)

\* key in current, for an object or an array; an array position that holds
\* undefined counts as a hole
HasKey(current, key) ==
  IF IsArr(current)
  THEN key = "length" \/ (IsArrayIndex(key) /\ GetProp(current, key).t # "undef")
  ELSE PairIndex(current.v, key) # 0

\* items[index] = value, the positions in between left as holes
SetIndex(items, index, value) ==
  [i \in 1..(IF index + 1 > Len(items) THEN index + 1 ELSE Len(items)) |->
     IF i = index + 1 THEN value ELSE IF i <= Len(items) THEN items[i] ELSE Undef]

\* current[key] = value.  The module is strict code: the assignment to a
\* property of a number, a string or a boolean throws, as it does for null
\* and undefined.  A named property of an array is outside the values of
\* this model and is given no case.
AssignProp(current, key, value) ==
  CASE current.t = "obj" -> [threw |-> FALSE, val |-> Obj(SetProp(current.v, key, value))]
    [] current.t = "arr" /\ IsArrayIndex(key) ->
         [threw |-> FALSE, val |-> Arr(SetIndex(current.v, NatOf(key), value))]
    [] current.t \in {"num", "str", "bool", "null", "undef"} ->
         [threw |-> TRUE, val |-> Undef]

\* the container the walk has gone through, written back with its new state
AssignWalked(current, key, walked) ==
  IF walked.threw THEN walked ELSE AssignProp(current, key, walked.val)

\* current[key] = /^\d+$/.test(next) ? [] : {}
FreshContainer(next) ==
  IF Len(next) > 0 /\ AllIn(next, Digits) THEN Arr(<<>>) ELSE Obj(<<>>)

\* the loop over keys and the final assignment; "key in current" throws for
\* a current that is no object
RECURSIVE SetAlong(_, _, _)
SetAlong(current, keys, value) ==
  IF Len(keys) = 1 THEN AssignProp(current, Head(keys), value)
  ELSE IF ~(current.t \in {"obj", "arr"}) THEN [threw |-> TRUE, val |-> Undef]
  ELSE AssignWalked(current, Head(keys),
                    SetAlong(IF HasKey(current, Head(keys))
                             THEN GetProp(current, Head(keys))
                             ELSE FreshContainer(keys[2]),
                             Tail(keys), value))

\* val is obj after the call; threw tells that a TypeError left the call
setNestedValue(obj, path, value) == SetAlong(obj, PathKeys(path), value)

(* ---------------------------------------------------------------------- *)
(* getDefaultValues                                                        *)
(* ---------------------------------------------------------------------- *)

\* a field that carries a default
WithDefault(field, value) == [default |-> value] @@ field

\* field.default, undefined where the field carries none
DefaultOf(field) == IF "default" \in DOMAIN field THEN field.default ELSE Undef

SetDone(val) == [threw |-> FALSE, val |-> val]

\* fields.forEach: setNestedValue(target, field.key, field.default) for every
\* field whose default is not undefined; target is what the loop has built
RECURSIVE SetDefaults(_, _)
SetDefaults(fields, target) ==
  IF Len(fields) = 0 \/ target.threw THEN target
  ELSE SetDefaults(Tail(fields),
                   IF DefaultOf(Head(fields)).t = "undef" THEN target
                   ELSE setNestedValue(target.val, Head(fields).key, DefaultOf(Head(fields))))

\* items.push(item) minItems times, then setNestedValue(defaults, key, items)
SetItems(defaults, key, minItems, item) ==
  IF item.threw THEN item
  ELSE setNestedValue(defaults, key, Arr([i \in 1..minItems |-> item.val]))

\* section.constraints?.minItems || 0
MinItemsOrZero(section) ==
  IF section.constraints.minItems = None THEN 0 ELSE section.constraints.minItems

\* the body of schema.sections.forEach for one section
SectionDefaults(section, defaults) ==
  IF defaults.threw THEN defaults
  ELSE IF section.repeatable /\ section.key # ""
       THEN IF MinItemsOrZero(section) > 0 /\ section.itemSchema.present
            THEN SetItems(defaults.val, section.key, MinItemsOrZero(section),
                          SetDefaults(section.itemSchema.fields, SetDone(Obj(<<>>))))
            ELSE setNestedValue(defaults.val, section.key, Arr(<<>>))
  ELSE IF section.fields.present THEN SetDefaults(section.fields.fields, defaults)
  ELSE defaults

RECURSIVE SectionsDefaults(_, _)
SectionsDefaults(sections, defaults) ==
  IF Len(sections) = 0 THEN defaults
  ELSE SectionsDefaults(Tail(sections), SectionDefaults(Head(sections), defaults))

\* val is the object returned; threw tells that a TypeError left the call
getDefaultValues(schema) ==
  IF ~schema.hasSections THEN [threw |-> TRUE, val |-> Undef]
  ELSE SectionsDefaults(schema.sections, SetDone(Obj(<<>>)))

(* ---------------------------------------------------------------------- *)
(* Specification SpecNested: setNestedValue followed by getNestedValue,    *)
(* and getDefaultValues, applied to inputs drawn from bounded sets.        *)
(* ---------------------------------------------------------------------- *)

\* roots whose values under the key a are objects or scalars
ObjectRootsDrawn ==
  {Obj(<<>>), Obj(<<KV("z", Num(1))>>),
   Obj(<<KV("a", Obj(<<KV("b", Num(1)), KV("k", Num(2))>>))>>),
   Obj(<<KV("a", Obj(<<KV("b", Obj(<<KV("c", Num(1))>>))>>))>>),
   Obj(<<KV("a", Num(5))>>), Obj(<<KV("a", Null)>>), Obj(<<KV("a", Str("s"))>>),
   Obj(<<KV("a", Obj(<<KV("b", Bool(TRUE))>>))>>)}

\* roots that hold an array under the key a
ArrayRootsDrawn ==
  {Obj(<<KV("a", Arr(<<>>))>>),
   Obj(<<KV("a", Arr(<<Obj(<<KV("b", Num(1))>>)>>))>>),
   Obj(<<KV("a", Arr(<<Num(5), Obj(<<>>)>>))>>)}

\* paths of identifier segments, and of identifier segments and indices
NamePathsDrawn == {"a", "a.b", "a.b.c", "x.y", "z"}

IndexPathsDrawn == {"a[0]", "a[1]", "a[0].b", "a[1].b", "a[2].b.c", "a[0][1]"}

SetValuesDrawn == {Str("v"), Num(0), Null, Obj(<<KV("p", Num(1))>>)}

SetCalls ==
  [root : ObjectRootsDrawn, path : NamePathsDrawn \cup IndexPathsDrawn, value : SetValuesDrawn]
  \cup [root : ArrayRootsDrawn, path : IndexPathsDrawn \cup {"a", "x.y"}, value : SetValuesDrawn]

\* what the two calls gave: the exception of the set, or the root it left
\* and the value the get returned
SetThenGet(set, path) ==
  IF set.threw THEN [threw |-> TRUE, root |-> Undef, got |-> Undef]
  ELSE [threw |-> FALSE, root |-> set.val, got |-> getNestedValue(set.val, path)]

\* fields with and without a default; the defaults include falsy values
TitleField == WithDefault(Field("title", "text", TRUE, NoConstraints), Str("T"))

RatioField == WithDefault(Field("hero.aspectRatio", "select", TRUE, NoConstraints), Str("20:13"))

FlagField == WithDefault(Field("style.bold", "select", FALSE, NoConstraints), Bool(FALSE))

PlainField == Field("description", "textarea", FALSE, NoConstraints)

StyleField == WithDefault(Field("style", "select", TRUE, NoConstraints), Str("primary"))

\* a repeatable section with the given item bound, and one without itemSchema
ItemsSection(minItems) ==
  RepeatableSection("pages", "pages", [NoConstraints EXCEPT !.minItems = minItems],
                    <<StyleField, PlainField>>)

BareSection(minItems) == [ItemsSection(minItems) EXCEPT !.itemSchema = NoItemSchema]

DefaultSchemasDrawn ==
  {Schema(<<>>),
   Schema(<<PlainSection("main", <<TitleField, PlainField, RatioField, FlagField>>)>>),
   Schema(<<PlainSection("main", <<TitleField>>), ItemsSection(None)>>),
   Schema(<<PlainSection("main", <<RatioField>>), ItemsSection(0)>>),
   Schema(<<ItemsSection(1), PlainSection("main", <<TitleField, FlagField>>)>>),
   Schema(<<ItemsSection(2)>>),
   Schema(<<BareSection(2)>>),
   Schema(<<PlainSection("main", <<StyleField, FlagField>>)>>),
   SchemaWithoutSections}

InitNested ==
  /\ pc = "ready"
  /\ \/ fn = "setNestedValue" /\ input \in SetCalls
     \/ fn = "getDefaultValues" /\ input \in DefaultSchemasDrawn
  /\ output = Pending

\* setNestedValue(root, path, value), then getNestedValue(root, path)
CallSetNestedValue ==
  /\ pc = "ready" /\ fn = "setNestedValue"
  /\ output' = SetThenGet(setNestedValue(input.root, input.path, input.value), input.path)
  /\ pc' = "done"
  /\ UNCHANGED <<fn, input>>

CallGetDefaultValues ==
  /\ pc = "ready" /\ fn = "getDefaultValues"
  /\ output' = getDefaultValues(input)
  /\ pc' = "done"
  /\ UNCHANGED <<fn, input>>

NextNested == CallSetNestedValue \/ CallGetDefaultValues

SpecNested == InitNested /\ [][NextNested]_vars

DoneSet == pc = "done" /\ fn = "setNestedValue"

DoneDefaults == pc = "done" /\ fn = "getDefaultValues"

\* C14: for any root object (a fresh {} or one that already holds values,
\* a non-object value at an intermediate segment of the path included) and
\* any path of identifier segments and [N] indices, setNestedValue(root,
\* path, v) followed by getNestedValue(root, path) returns v.
C14_PathRoundTrip == DoneSet => (~output.threw /\ output.got = input.value)

\* the fields of a sequence that carry a default
WithDefaults(fields) == SelectSeq(fields, LAMBDA f : DefaultOf(f).t # "undef")

\* target holds, for every field with a default, that default at its path
HoldsDefaults(fields, target) ==
  \A i \in 1..Len(WithDefaults(fields)) :
    getNestedValue(target, WithDefaults(fields)[i].key) = DefaultOf(WithDefaults(fields)[i])

\* what defaults holds for one section of the schema
SectionHoldsDefaults(section, defaults) ==
  IF section.repeatable
  THEN /\ IsArr(getNestedValue(defaults, section.key))
       /\ Len(getNestedValue(defaults, section.key).v) = MinItemsOrZero(section)
       /\ \A i \in 1..MinItemsOrZero(section) :
            /\ isPlainObject(getNestedValue(defaults, section.key).v[i])
            /\ HoldsDefaults(section.itemSchema.fields,
                             getNestedValue(defaults, section.key).v[i])
  ELSE HoldsDefaults(section.fields.fields, defaults)

\* C16: getDefaultValues(schema) returns an object in which every
\* non-repeatable field with a default holds that default at its path, every
\* repeatable section with constraints.minItems = n > 0 holds an array of
\* exactly n item objects, each populated with the defaults of the item
\* schema's fields, and every repeatable section with minItems absent or 0
\* holds an empty array.
C16_DefaultValues ==
  (DoneDefaults /\ input.hasSections)
    => /\ ~output.threw
       /\ isPlainObject(output.val)
       /\ \A i \in 1..Len(input.sections) :
            SectionHoldsDefaults(input.sections[i], output.val)

(* ---------------------------------------------------------------------- *)
(* Specification SpecResolve: resolveTemplateDefinition applied to         *)
(* template records drawn from bounded sets.                               *)
(* ---------------------------------------------------------------------- *)

NamesDrawn ==
  {Undef, Str(""), Str("Promo"), Str("Product CAROUSEL"), Str("duoye"), Str("Danye card"),
   Str("Event Haibao"), Str("Carousel danye")}

DescriptionsDrawn ==
  {Undef, Str(""), Str("a Carousel of pages"), Str("A Single card"), Str("single or carousel")}

StoredTextsDrawn ==
  {Undef, Str(""), Str(LegacyText), Str(RawText), Str(CustomText), Str(carouselTemplateText)}

ResolveCalls ==
  {Template(n, d, t, x) : n \in NamesDrawn, d \in DescriptionsDrawn, t \in StoredTextsDrawn,
                          x \in {StoredSchema(""), SchemaWithoutSections}}

InitResolve ==
  /\ pc = "ready"
  /\ fn = "resolveTemplateDefinition"
  /\ input \in ResolveCalls
  /\ output = Pending

CallResolveTemplateDefinition ==
  /\ pc = "ready" /\ fn = "resolveTemplateDefinition"
  /\ output' = resolveTemplateDefinition(input)
  /\ pc' = "done"
  /\ UNCHANGED <<fn, input>>

NextResolve == CallResolveTemplateDefinition

SpecResolve == InitResolve /\ [][NextResolve]_vars

DoneResolve == pc = "done" /\ fn = "resolveTemplateDefinition"

\* the stored text holds the grammar token
HasGrammarToken(template) ==
  IsStr(template.templateText) /\ Includes(template.templateText.v, "{{")

\* the name or the description matches a marker of the family, whatever the case
MatchesCarousel(template) ==
  \/ Includes(LowerOrEmpty(template.name), "carousel")
  \/ Includes(LowerOrEmpty(template.name), MultiPageMarker)
  \/ Includes(LowerOrEmpty(template.description), "carousel")

MatchesSingle(template) ==
  \/ Includes(LowerOrEmpty(template.name), SinglePageMarker)
  \/ Includes(LowerOrEmpty(template.name), PosterMarker)
  \/ Includes(LowerOrEmpty(template.description), "single")

\* the pair of a resolved template
PairOf(resolved) == <<resolved.templateText, resolved.schema>>

\* C15: if template.templateText contains "{{", the template's own
\* templateText and schema are used unmodified, whatever its name or
\* description; otherwise the built-in carousel pair where the carousel
\* markers match, else the built-in single-poster pair where the single-page
\* markers match (the carousel taking precedence when both match), else the
\* template's own stored templateText and schema.
C15_TemplateResolution ==
  DoneResolve
    => PairOf(output) =
         (IF HasGrammarToken(input) THEN <<input.templateText, input.schema>>
          ELSE IF MatchesCarousel(input) THEN <<Str(carouselTemplateText), carouselSchema>>
          ELSE IF MatchesSingle(input) THEN <<Str(singlePosterTemplateText), singlePosterSchema>>
          ELSE <<input.templateText, input.schema>>)

\* C15 witness: a legacy record whose name matches both families resolved to
\* the built-in carousel pair
C15_Witness ==
  /\ DoneResolve
  /\ input.name = Str("Carousel danye") /\ input.templateText = Str(LegacyText)
  /\ MatchesCarousel(input) /\ MatchesSingle(input)
  /\ output = ResolvedTemplate(Str(carouselTemplateText), carouselSchema, "carousel")

(* ---------------------------------------------------------------------- *)
(* The public share page: Share.loadMessage                                *)
(* ---------------------------------------------------------------------- *)

\* the React state of the page that loadMessage writes
PageOf(state, message, error) == [state |-> state, message |-> message, error |-> error]

\* useState('loading'), useState(null), useState('')
MountedPage == PageOf("loading", Null, "")

\* setState('not-found')
NotFound(page) == [page EXCEPT !.state = "not-found"]

\* the catch of loadMessage: setState('error'), setError(...)
LoadFailed(page) == [page EXCEPT !.state = "error", !.error = "loadFailed"]

\* setState('error'), setError(...) for a message that is null or has errors
MessageRejected(page) == [page EXCEPT !.state = "error", !.error = "invalidMessage"]

\* if (!nextMessage || validationErrors.length > 0) error; else setMessage,
\* setShareUi (reading data.shareUi raises TypeError for data that is null or
\* undefined, after the message is set), setState('ready')
MessageAccepted(page, nextMessage, validationErrors, data) ==
  IF ~Truthy(nextMessage) \/ Len(validationErrors) > 0 THEN MessageRejected(page)
  ELSE IF data.t \in {"undef", "null"} THEN LoadFailed([page EXCEPT !.message = nextMessage])
  ELSE [page EXCEPT !.message = nextMessage, !.state = "ready"]

\* the fallback: compileAndValidate(template, doc.data), its message and errors
Recompiled(page, compiled, data) ==
  IF compiled.threw THEN LoadFailed(page)
  ELSE MessageAccepted(page, compiled.message, compiled.errors, data)

\* the cached previewJson is used whatever its validation says
RevalidatedTrusting(page, nextMessage, validation, template, data) ==
  IF validation.threw THEN LoadFailed(page)
  ELSE IF ~Truthy(nextMessage)
       THEN Recompiled(page, compileAndValidate(template, data), data)
  ELSE MessageAccepted(page, nextMessage, <<>>, data)

\* the cached previewJson is validated again; it is used where it has no
\* error, the document is compiled otherwise
Revalidated(page, nextMessage, validation, template, data) ==
  IF validation.threw THEN LoadFailed(page)
  ELSE IF ~Truthy(nextMessage) \/ Len(validation.errors) > 0
       THEN Recompiled(page, compileAndValidate(template, data), data)
  ELSE MessageAccepted(page, nextMessage, validation.errors, data)

\* (doc as any).previewJson || null, and its validation where it is truthy
CachedMessage(page, nextMessage, template, data) ==
  Revalidated(page, nextMessage,
              IF Truthy(nextMessage) THEN validateFlexForShareTargetPicker(nextMessage)
              ELSE Returned(<<>>),
              template, data)

\* loadMessage from the resolved recordAccess on
Loaded(page, row) ==
  CachedMessage(page, IF Truthy(row.previewJson) THEN row.previewJson ELSE Null,
                row.template, row.data)

(* ---------------------------------------------------------------------- *)
(* Specification SpecShare: the share page opened with a token, against    *)
(* the rows get_public_doc_by_token can return.                            *)
(* ---------------------------------------------------------------------- *)

\* stored preview_json values: none, messages that pass the validation,
\* messages that fail it, a message the validation throws on, and values that
\* are no message
PreviewsDrawn ==
  {Undef, Null,
   JsonParse(RawText).val,
   Obj(<<KV("type", Str("flex")), KV("altText", Str("a"))>>),
   Obj(<<KV("type", Str("flex")), KV("altText", Str(" ")),
         KV("contents", Obj(<<KV("type", Str("bubble"))>>))>>),
   Obj(<<KV("type", Str("flex")), KV("altText", Str("a")),
         KV("contents", Obj(<<KV("action", UriAction(Str("Go"), Str("http://e.com")))>>))>>),
   Obj(<<KV("type", Str("flex")), KV("altText", Num(5))>>),
   Str("x"), Arr(<<>>)}

\* what get_public_doc_by_token gives for the token: nothing, or the
\* published doc of the share link with its template
RowsDrawn ==
  {Null} \cup [previewJson : PreviewsDrawn, template : TemplatesDrawn, data : CompileDataDrawn]

TokensDrawn == {Null, Str(""), Str("tok")}

InitShare ==
  /\ pc = "liffReady"
  /\ fn = "loadMessage"
  /\ input \in [token : TokensDrawn, row : RowsDrawn]
  /\ output = MountedPage

\* loadMessage up to its first await: no token, or the call of getDocByToken
EnterLoadMessage ==
  IF ~Truthy(input.token)
  THEN pc' = "settled" /\ output' = NotFound(output)
  ELSE pc' = "awaitDoc" /\ UNCHANGED output

\* the effect that runs loadMessage once LIFF is ready
StartLoadMessage ==
  /\ pc = "liffReady"
  /\ EnterLoadMessage
  /\ UNCHANGED <<fn, input>>

\* the retry button of the error page calls loadMessage again
RetryLoadMessage ==
  /\ pc = "settled" /\ output.state = "error"
  /\ EnterLoadMessage
  /\ UNCHANGED <<fn, input>>

\* getDocByToken resolves: no row, or on to recordAccess
DocResolved ==
  /\ pc = "awaitDoc"
  /\ IF input.row = Null
     THEN pc' = "settled" /\ output' = NotFound(output)
     ELSE pc' = "awaitAccess" /\ UNCHANGED output
  /\ UNCHANGED <<fn, input>>

\* getDocByToken or recordAccess rejects: the catch
CallRejected ==
  /\ pc \in {"awaitDoc", "awaitAccess"}
  /\ pc' = "settled"
  /\ output' = LoadFailed(output)
  /\ UNCHANGED <<fn, input>>

\* recordAccess resolves: the rest of loadMessage runs to its end
AccessResolved ==
  /\ pc = "awaitAccess"
  /\ pc' = "settled"
  /\ output' = Loaded(output, input.row)
  /\ UNCHANGED <<fn, input>>

NextShare ==
  \/ StartLoadMessage
  \/ RetryLoadMessage
  \/ DocResolved
  \/ CallRejected
  \/ AccessResolved

SpecShare == InitShare /\ [][NextShare]_vars

\* the message has no message-structure error
PassesValidation(message) ==
  /\ ~validateFlexForShareTargetPicker(message).threw
  /\ validateFlexForShareTargetPicker(message).errors = <<>>

\* C22: the share page is in state 'ready' only with a message that is not
\* null and has no message-structure error: the cached previewJson where that
\* passes the validation, otherwise the message compiled from the template
\* and the doc data, returned with an empty error list; in every other state
\* ('loading', 'error', 'not-found') no message is set.
C22_ReadyOnlyWithValidMessage ==
  fn = "loadMessage"
    => IF output.state = "ready"
       THEN /\ input.row # Null
            /\ Truthy(output.message)
            /\ PassesValidation(output.message)
            /\ IF Truthy(input.row.previewJson) /\ PassesValidation(input.row.previewJson)
               THEN output.message = input.row.previewJson
               ELSE /\ ~compileAndValidate(input.row.template, input.row.data).threw
                    /\ compileAndValidate(input.row.template, input.row.data).errors = <<>>
                    /\ output.message
                         = compileAndValidate(input.row.template, input.row.data).message
       ELSE output.message = Null

\* C22 witness: the page has become ready with the cached previewJson
C22_Witness ==
  /\ fn = "loadMessage" /\ pc = "settled"
  /\ output.state = "ready"
  /\ output.message = JsonParse(RawText).val
  /\ input.row.previewJson = output.message
  /\ PassesValidation(output.message)

(* ---------------------------------------------------------------------- *)
(* Specification SpecPublish: concurrent calls of templatesStore.publish   *)
(* on one template. output holds the row of the templates table, pc the    *)
(* position, the template read and the number of completed calls of every  *)
(* caller.                                                                 *)
(* ---------------------------------------------------------------------- *)

\* the number of callers, and of calls each of them makes
PublishersBound == 2

PublishesBound == 2

Publishers == 1..PublishersBound

\* the columns of the row that publish reads and writes
TemplateRow(status, version) == [status |-> status, version |-> version]

Caller(at, template, completed) == [at |-> at, template |-> template, completed |-> completed]

InitPublish ==
  /\ fn = "templatesStore.publish"
  /\ input \in {TemplateRow(st, v) : st \in {"draft", "published"}, v \in 1..3}
  /\ output = input
  /\ pc = [p \in Publishers |-> Caller("idle", input, 0)]

\* const template = await templatesStore.getById(id)
PublishGetById(p) ==
  /\ pc[p].at = "idle" /\ pc[p].completed < PublishesBound
  /\ pc' = [pc EXCEPT ![p] = Caller("read", output, pc[p].completed)]
  /\ UNCHANGED <<fn, input, output>>

\* return templatesStore.update(id, { status: 'published', version: template.version + 1 })
PublishUpdate(p) ==
  /\ pc[p].at = "read"
  /\ output' = TemplateRow("published", pc[p].template.version + 1)
  /\ pc' = [pc EXCEPT ![p] = Caller("idle", pc[p].template, pc[p].completed + 1)]
  /\ UNCHANGED <<fn, input>>

NextPublish == \E p \in Publishers : PublishGetById(p) \/ PublishUpdate(p)

SpecPublish == InitPublish /\ [][NextPublish]_vars

\* the publishes completed by the callers 1..p
RECURSIVE CompletedUpTo(_)
CompletedUpTo(p) == IF p = 0 THEN 0 ELSE pc[p].completed + CompletedUpTo(p - 1)

\* C23: every completed templatesStore.publish sets the status to 'published'
\* and raises the stored version by exactly one: with no publish in flight,
\* after n completed publishes, in any interleaving of their read and write
\* steps, the stored version is the initial version plus n.
C23_VersionCountsPublishes ==
  (fn = "templatesStore.publish" /\ \A p \in Publishers : pc[p].at = "idle")
    => /\ output.version = input.version + CompletedUpTo(PublishersBound)
       /\ CompletedUpTo(PublishersBound) > 0 => output.status = "published"

(* ---------------------------------------------------------------------- *)
(* Specification SpecInterpolate: interpolateTemplate applied to legacy    *)
(* texts and data drawn from bounded sets.                                 *)
(* ---------------------------------------------------------------------- *)

LegacyTextsDrawn ==
  {"${data.a}",
   "{\"x\":\"${data.a}\",\"y\":\"${data.b}\"}",
   "{\"x\":\"${data.b}\",\"y\":\"${data.a}\",\"z\":\"${data.b}\"}",
   "[${data.n.m}, ${data.a}, ${data.n.m}]",
   "{\"t\":${data.c}} and ${data.a}"}

\* values of data.a: plain text, text holding $-sequences, text of the form
\* of a variable, and values that are no strings
FirstValuesDrawn ==
  {Undef, Str("T"), Str(""), Str("$&"), Str("a$$b"), Str("$'"), Str("US$ 5"),
   Str("${data.b}"), Str("${data.zz}"), Num(7), Bool(FALSE), Null,
   Arr(<<Str("$&")>>), Obj(<<KV("k", Str("v"))>>)}

SecondValuesDrawn == {Undef, Str("B"), Str("$&"), Num(0), Obj(<<KV("a", Str("${data.a}"))>>)}

InterpolateDataDrawn ==
  {Obj(<<KV("a", x), KV("b", y), KV("n", Obj(<<KV("m", y)>>)), KV("c", Str("C"))>>) :
     x \in FirstValuesDrawn, y \in SecondValuesDrawn}

InitInterpolate ==
  /\ pc = "ready"
  /\ fn = "interpolateTemplate"
  /\ input \in [templateText : LegacyTextsDrawn, data : InterpolateDataDrawn]
  /\ output = interpolateTemplate("", Obj(<<>>))

CallInterpolateTemplate ==
  /\ pc = "ready" /\ fn = "interpolateTemplate"
  /\ output' = interpolateTemplate(input.templateText, input.data)
  /\ pc' = "done"
  /\ UNCHANGED <<fn, input>>

NextInterpolate == CallInterpolateTemplate

SpecInterpolate == InitInterpolate /\ [][NextInterpolate]_vars

DoneInterpolate == pc = "done" /\ fn = "interpolateTemplate"

\* every variable of the text from position i on resolves in data
RECURSIVE AllResolve(_, _, _)
AllResolve(text, data, i) ==
  \/ ~NextVariable(text, i).found
  \/ /\ getNestedValue(data, NextVariable(text, i).path).t # "undef"
     /\ AllResolve(text, data, NextVariable(text, i).stop + 1)

\* the text from position i on with every variable replaced, where it stands,
\* by the text of its value, inserted as it is
RECURSIVE Substituted(_, _, _)
Substituted(text, data, i) ==
  IF ~NextVariable(text, i).found THEN From(text, i)
  ELSE SubSeq(text, i, NextVariable(text, i).start - 1)
       \o ReplacementOf(getNestedValue(data, NextVariable(text, i).path))
       \o Substituted(text, data, NextVariable(text, i).stop + 1)

\* C24: in legacy substitution mode with all variables resolvable, every
\* occurrence of every ${data.<path>} of the template is replaced by the value
\* at <path> (strings verbatim, numbers and booleans as text, other values
\* JSON-stringified), inserted literally: values that hold text of the form
\* ${data.<other>} or $-sequences such as $& are inserted as they are.
C24_LiteralSubstitution ==
  (DoneInterpolate /\ AllResolve(input.templateText, input.data, 1))
    => /\ output.hasResult
       /\ output.errors = <<>>
       /\ output.result = Substituted(input.templateText, input.data, 1)

(* ---------------------------------------------------------------------- *)
(* Objects as cells of a heap: the writes of deepMerge, applyInlinePatches *)
(* and of the final patch. A cell is an object (pairs) or an array         *)
(* (items); a value held in a cell is a scalar or a reference to a cell.   *)
(* ---------------------------------------------------------------------- *)

Ref(a) == [t |-> "ref", a |-> a]

Cell(t, v) == [t |-> t, v |-> v]

\* a heap and a value in it
Stored(heap, val) == [heap |-> heap, val |-> val]

RECURSIVE Store(_, _)
RECURSIVE StorePairs(_, _, _)
RECURSIVE StoreItems(_, _, _)

StorePairNext(s, k, rest, done) == StorePairs(s.heap, rest, Append(done, KV(k, s.val)))

\* the pairs of a new object, each value stored before the object itself
StorePairs(h, pairs, done) ==
  IF Len(pairs) = 0 THEN Stored(Append(h, Cell("obj", done)), Ref(Len(h) + 1))
  ELSE StorePairNext(Store(h, Head(pairs).v), Head(pairs).k, Tail(pairs), done)

StoreItemNext(s, rest, done) == StoreItems(s.heap, rest, Append(done, s.val))

StoreItems(h, items, done) ==
  IF Len(items) = 0 THEN Stored(Append(h, Cell("arr", done)), Ref(Len(h) + 1))
  ELSE StoreItemNext(Store(h, Head(items)), Tail(items), done)

\* a value built of new cells, as JSON.parse and object literals build it
Store(h, x) ==
  CASE x.t = "obj" -> StorePairs(h, x.v, <<>>)
    [] x.t = "arr" -> StoreItems(h, x.v, <<>>)
    [] OTHER -> Stored(h, x)

RECURSIVE Load(_, _)
\* the value a reference stands for, its cells followed
Load(h, v) ==
  IF v.t # "ref" THEN v
  ELSE IF h[v.a].t = "arr" THEN Arr([i \in 1..Len(h[v.a].v) |-> Load(h, h[v.a].v[i])])
  ELSE Obj([i \in 1..Len(h[v.a].v) |-> KV(h[v.a].v[i].k, Load(h, h[v.a].v[i].v))])

\* isPlainObject of a value in the heap
IsPlainCell(h, v) == v.t = "ref" /\ h[v.a].t = "obj"

\* the cell at a read as an object: obj[k]
Property(h, a, k) == GetProp(Obj(h[a].v), k)

\* obj[k] = v, written into the cell at a
WriteProp(h, a, k, v) == [h EXCEPT ![a] = Cell("obj", SetProp(h[a].v, k, v))]

\* delete obj[k], written into the cell at a
RemoveProp(h, a, k) == [h EXCEPT ![a] = Cell("obj", DeleteProp(h[a].v, k))]

\* { ...obj }: a new cell with the pairs of the cell at a
SpreadCopy(h, a) == Stored(Append(h, h[a]), Ref(Len(h) + 1))

\* parseJsonMaybe: the parsed text in new cells, or the value itself
ParsedStored(h, v) ==
  IF IsStr(v) /\ JsonParse(v.v).ok THEN Store(h, JsonParse(v.v).val) ELSE Stored(h, v)

RECURSIVE MergeCells(_, _, _)
RECURSIVE MergeCellEntries(_, _, _)

\* out[k] = deepMerge(out[k], v), m being the merged value
MergeCellStored(m, out, k, rest) == MergeCellEntries(WriteProp(m.heap, out, k, m.val), out, rest)

\* the loop over Object.entries(patch), writing into the copy out
MergeCellEntries(h, out, entries) ==
  IF Len(entries) = 0 THEN Stored(h, Ref(out))
  ELSE IF IsPlainCell(h, Head(entries).v) /\ IsPlainCell(h, Property(h, out, Head(entries).k))
       THEN MergeCellStored(MergeCells(h, Property(h, out, Head(entries).k), Head(entries).v),
                            out, Head(entries).k, Tail(entries))
  ELSE MergeCellEntries(WriteProp(h, out, Head(entries).k, Head(entries).v), out,
                        Tail(entries))

MergeIntoCopy(copy, entries) == MergeCellEntries(copy.heap, copy.val.a, entries)

\* deepMerge(base, patch) on the heap
MergeCells(h, base, patch) ==
  IF ~IsPlainCell(h, base) \/ ~IsPlainCell(h, patch) THEN Stored(h, base)
  ELSE MergeIntoCopy(SpreadCopy(h, base.a), h[patch.a].v)

RECURSIVE PatchCells(_, _)
RECURSIVE PatchCellItems(_, _, _)
RECURSIVE PatchCellEntries(_, _, _)

PatchCellItemNext(s, rest, done) == PatchCellItems(s.heap, rest, Append(done, s.val))

\* node.map(applyInlinePatches): a new array
PatchCellItems(h, items, done) ==
  IF Len(items) = 0 THEN Stored(Append(h, Cell("arr", done)), Ref(Len(h) + 1))
  ELSE PatchCellItemNext(PatchCells(h, Head(items)), Tail(items), done)

PatchCellEntryNext(s, obj, k, rest) == PatchCellEntries(WriteProp(s.heap, obj, k, s.val), obj, rest)

\* obj[k] = applyInlinePatches(v) for every entry of the copy obj
PatchCellEntries(h, obj, entries) ==
  IF Len(entries) = 0 THEN Stored(h, Ref(obj))
  ELSE PatchCellEntryNext(PatchCells(h, Head(entries).v), obj, Head(entries).k,
                          Tail(entries))

\* return applyInlinePatches(merged)
PatchMerged(m) == PatchCells(m.heap, m.val)

\* the copy obj with its __patch parsed (patch) and deleted
PatchCellParsed(patch, obj) ==
  IF IsPlainCell(patch.heap, patch.val)
  THEN PatchMerged(MergeCells(RemoveProp(patch.heap, obj, "__patch"), Ref(obj), patch.val))
  ELSE PatchCellEntries(RemoveProp(patch.heap, obj, "__patch"), obj,
                        DeleteProp(patch.heap[obj].v, "__patch"))

\* const obj = { ...node } and what follows
PatchCopy(copy) ==
  IF Property(copy.heap, copy.val.a, "__patch").t # "undef"
  THEN PatchCellParsed(ParsedStored(copy.heap, Property(copy.heap, copy.val.a, "__patch")),
                       copy.val.a)
  ELSE PatchCellEntries(copy.heap, copy.val.a, copy.heap[copy.val.a].v)

\* applyInlinePatches(node) on the heap
PatchCells(h, node) ==
  IF node.t # "ref" THEN Stored(h, node)
  ELSE IF h[node.a].t = "arr" THEN PatchCellItems(h, h[node.a].v, <<>>)
  ELSE PatchCopy(SpreadCopy(h, node.a))

\* the message is merged into the patch object itself
FinalPatchInPlace(patched, patch) ==
  IF IsPlainCell(patch.heap, patch.val) /\ IsPlainCell(patch.heap, patched)
  THEN MergeCellEntries(patch.heap, patch.val.a, patch.heap[patched.a].v)
  ELSE Stored(patch.heap, patched)

\* const patch = parseJsonMaybe(...); if (isPlainObject(patch)) parsed =
\* deepMerge(parsed, patch)
FinalPatchCells(patched, patch) ==
  IF IsPlainCell(patch.heap, patch.val) THEN MergeCells(patch.heap, patched, patch.val)
  ELSE Stored(patch.heap, patched)

\* data?.advanced?.messagePatch read in the heap
MessagePatchCell(h, data) ==
  IF Property(h, data.a, "advanced").t = "ref"
  THEN Property(h, Property(h, data.a, "advanced").a, "messagePatch")
  ELSE Undef

FinalPatchOf(patched, data) ==
  FinalPatchCells(patched.val, ParsedStored(patched.heap, MessagePatchCell(patched.heap, data)))

\* renderFlexMessage from the parsed text on: parsed is what JSON.parse built
PatchParsed(parsed, data) == FinalPatchOf(PatchCells(parsed.heap, parsed.val), data)

(* ---------------------------------------------------------------------- *)
(* Specification SpecFrame: the steps of compileAndValidate that write     *)
(* into objects, on a heap that holds the data object.                     *)
(* ---------------------------------------------------------------------- *)

\* data.advanced.messagePatch: objects one and two deep, JSON text, others
MessagePatchesDrawn ==
  {Undef, Num(5), Str("oops"), Str("{\"style\":\"link\"}"),
   Obj(<<KV("style", Str("link"))>>),
   Obj(<<KV("c", Obj(<<KV("m", Num(9)), KV("deep", Obj(<<KV("k", Arr(<<Num(1)>>))>>))>>)),
         KV("body", Obj(<<KV("style", Str("final"))>>))>>),
   Obj(<<KV("footer", Obj(<<KV("contents", Arr(<<Obj(<<KV("k", Num(1))>>)>>))>>)),
         KV("__patch", Obj(<<KV("z", Num(1))>>))>>)}

FrameDataDrawn ==
  {Obj(<<KV("title", Str("T")), KV("buttons", Arr(<<GoButton>>)),
         KV("advanced", Obj(<<KV("messagePatch", mp)>>))>>) : mp \in MessagePatchesDrawn}
  \cup {Obj(<<KV("title", Str("T"))>>), Obj(<<KV("advanced", Str("x"))>>)}

\* the heap holds the data object; parsed is the value JSON.parse will build
InitFrame ==
  /\ pc = "ready"
  /\ fn = "applyPatches"
  /\ input \in {[heap |-> Store(<<>>, dt).heap, data |-> Store(<<>>, dt).val, parsed |-> n] :
                  dt \in FrameDataDrawn, n \in PatchNodesDrawn}
  /\ output = Stored(input.heap, Null)

CallApplyPatches ==
  /\ pc = "ready" /\ fn = "applyPatches"
  /\ output' = PatchParsed(Store(input.heap, input.parsed), input.data)
  /\ pc' = "done"
  /\ UNCHANGED <<fn, input>>

NextFrame == CallApplyPatches

SpecFrame == InitFrame /\ [][NextFrame]_vars

DoneFrame == pc = "done" /\ fn = "applyPatches"

\* the heap computes what the functions on values compute
HeapAgrees ==
  DoneFrame
    => Load(output.heap, output.val)
         = FinalPatch(applyInlinePatches(input.parsed),
                      parseJsonMaybe(HbPath(Load(input.heap, input.data),
                                            "advanced.messagePatch"))).message

\* C25: compileAndValidate has no side effects on its inputs: after the call
\* every object and array of the data, data.advanced.messagePatch and what is
\* nested in it included, holds what it held before (the template record and
\* the built-in definitions are only read).
C25_InputsUnchanged ==
  DoneFrame
    => /\ Len(output.heap) >= Len(input.heap)
       /\ \A a \in 1..Len(input.heap) : output.heap[a] = input.heap[a]

\* C25 witness: the message returned holds an object of data.advanced.messagePatch
\* itself (not a copy), and the data is as it was
C25_Witness ==
  /\ DoneFrame
  /\ IsPlainCell(input.heap, MessagePatchCell(input.heap, input.data))
  /\ IsPlainCell(output.heap, output.val)
  /\ \E k \in {"c", "body", "footer"} :
       /\ Property(output.heap, output.val.a, k).t = "ref"
       /\ Property(output.heap, output.val.a, k).a <= Len(input.heap)
  /\ Load(output.heap, input.data) = Load(input.heap, input.data)

\* C26: a null message never comes with an empty error contribution of the
\* render step: whenever renderFlexMessage, the render step of
\* compileAndValidate, returns a null message, its error list holds at least
\* one error, also for a legacy template whose substitution result is the
\* empty string and for a template that renders to the JSON literal null.
C26_NullMessageHasRenderError ==
  (DoneRender /\ output.message.t = "null") => Len(output.errors) >= 1

(* ---------------------------------------------------------------------- *)
(* Specification SpecEditor: the item list of a repeatable section         *)
(* (RepeatableSectionRenderer) or of a repeatable field (FieldRenderer)     *)
(* under the add, remove and move buttons of the form editor.              *)
(* ---------------------------------------------------------------------- *)

\* the longest item list the editor is taken to
ItemsBound == 3

\* section.constraints || {}
ItemConstraints(minItems, maxItems) == [minItems |-> minItems, maxItems |-> maxItems]

\* an item the document came with, and the item of a schema without defaults
StoredItem(i) == Obj(<<KV("id", Num(i))>>)

newItem == Obj(<<>>)

\* if (constraints.maxItems && items.length >= constraints.maxItems) return;
\* onChange(section.key, [...items, newItem])
addItem(items, constraints) ==
  IF Truthy(constraints.maxItems) /\ Len(items) >= constraints.maxItems.v THEN items
  ELSE Append(items, newItem)

\* items.filter((_, i) => i !== index)
WithoutIndex(items, index) ==
  [i \in 1..(Len(items) - (IF index + 1 \in 1..Len(items) THEN 1 ELSE 0)) |->
     IF i < index + 1 THEN items[i] ELSE items[i + 1]]

\* if (constraints.minItems && items.length <= constraints.minItems) return;
\* onChange(section.key, updated)
removeItem(items, constraints, index) ==
  IF Truthy(constraints.minItems) /\ Len(items) <= constraints.minItems.v THEN items
  ELSE WithoutIndex(items, index)

\* const newIndex = direction === 'up' ? index - 1 : index + 1
NewIndex(index, direction) == IF direction = "up" THEN index - 1 ELSE index + 1

\* if (newIndex < 0 || newIndex >= items.length) return; the two items
\* exchanged in a copy
moveItem(items, index, direction) ==
  IF NewIndex(index, direction) < 0 \/ NewIndex(index, direction) >= Len(items) THEN items
  ELSE [items EXCEPT ![index + 1] = items[NewIndex(index, direction) + 1],
                     ![NewIndex(index, direction) + 1] = items[index + 1]]

\* the same guards in FieldRenderer
addSubItem(items, constraints) == addItem(items, constraints)

removeSubItem(items, constraints, index) == removeItem(items, constraints, index)

\* minItems and maxItems of a schema: absent, or a number
MinItemsDrawn == {Undef, Num(0), Num(1)}

MaxItemsDrawn == {Undef, Num(0), Num(2), Num(ItemsBound)}

LowerLimit(constraints) == IF constraints.minItems.t = "num" THEN constraints.minItems.v ELSE 0

UpperLimit(constraints) ==
  IF constraints.maxItems.t = "num" THEN constraints.maxItems.v ELSE ItemsBound + 1

\* the length is within [minItems, maxItems], an absent limit being none
LengthWithin(items, constraints) ==
  /\ Len(items) >= LowerLimit(constraints)
  /\ Len(items) <= UpperLimit(constraints)

EditorsDrawn ==
  {[renderer |-> r, constraints |-> ItemConstraints(lo, hi)] :
     r \in {"RepeatableSectionRenderer", "FieldRenderer"},
     lo \in MinItemsDrawn, hi \in MaxItemsDrawn}

\* the button pressed last, with the list it was rendered with
Pressed(op, index, items) == [op |-> op, index |-> index, items |-> items]

\* the editor is rendered with a stored list whose length is within the limits
InitEditor ==
  /\ fn = "SchemaFormRenderer"
  /\ input \in {e \in EditorsDrawn : LowerLimit(e.constraints) <= UpperLimit(e.constraints)}
  /\ \E n \in 0..ItemsBound :
       /\ LengthWithin([i \in 1..n |-> StoredItem(i)], input.constraints)
       /\ output = [i \in 1..n |-> StoredItem(i)]
  /\ pc = Pressed("none", 0, output)

\* addItem called from the add button of a section
AddItem ==
  /\ fn = "SchemaFormRenderer" /\ input.renderer = "RepeatableSectionRenderer"
  /\ Len(output) <= ItemsBound
  /\ output' = addItem(output, input.constraints)
  /\ pc' = Pressed("add", Len(output), output)
  /\ UNCHANGED <<fn, input>>

\* removeItem called from the remove button of the item at index
RemoveItem ==
  /\ fn = "SchemaFormRenderer" /\ input.renderer = "RepeatableSectionRenderer"
  /\ \E index \in 0..(Len(output) - 1) :
       /\ output' = removeItem(output, input.constraints, index)
       /\ pc' = Pressed("remove", index, output)
  /\ UNCHANGED <<fn, input>>

\* moveItem called from the up and down buttons of the item at index
MoveItem ==
  /\ fn = "SchemaFormRenderer" /\ input.renderer = "RepeatableSectionRenderer"
  /\ \E index \in 0..(Len(output) - 1), direction \in {"up", "down"} :
       /\ output' = moveItem(output, index, direction)
       /\ pc' = Pressed(direction, index, output)
  /\ UNCHANGED <<fn, input>>

\* addSubItem called from the add button of a repeatable field
AddSubItem ==
  /\ fn = "SchemaFormRenderer" /\ input.renderer = "FieldRenderer"
  /\ Len(output) <= ItemsBound
  /\ output' = addSubItem(output, input.constraints)
  /\ pc' = Pressed("add", Len(output), output)
  /\ UNCHANGED <<fn, input>>

\* removeSubItem called from the remove button of the item at index
RemoveSubItem ==
  /\ fn = "SchemaFormRenderer" /\ input.renderer = "FieldRenderer"
  /\ \E index \in 0..(Len(output) - 1) :
       /\ output' = removeSubItem(output, input.constraints, index)
       /\ pc' = Pressed("remove", index, output)
  /\ UNCHANGED <<fn, input>>

NextEditor == AddItem \/ RemoveItem \/ MoveItem \/ AddSubItem \/ RemoveSubItem

SpecEditor == InitEditor /\ [][NextEditor]_vars

\* how often an item occurs in a list
Occurrences(items, item) == Cardinality({i \in 1..Len(items) : items[i] = item})

SameItems(a, b) ==
  /\ Len(a) = Len(b)
  /\ \A i \in 1..Len(a) : Occurrences(a, a[i]) = Occurrences(b, a[i])

\* C29: in the form editor, for a repeatable section or field whose item list
\* starts with a length within [minItems, maxItems], every sequence of add,
\* remove and move keeps the length within [minItems, maxItems]; add at
\* maxItems and remove at minItems change nothing; a move exchanges two
\* adjacent items and leaves the length and the multiset of items unchanged.
C29_LengthWithinLimits ==
  fn = "SchemaFormRenderer"
    => /\ LengthWithin(output, input.constraints)
       /\ (pc.op = "add" /\ Len(pc.items) >= UpperLimit(input.constraints))
            => output = pc.items
       /\ (pc.op = "remove" /\ Len(pc.items) <= LowerLimit(input.constraints))
            => output = pc.items
       /\ (pc.op \in {"up", "down"} /\ NewIndex(pc.index, pc.op) \notin 0..(Len(pc.items) - 1))
            => output = pc.items
       /\ (pc.op \in {"up", "down"} /\ NewIndex(pc.index, pc.op) \in 0..(Len(pc.items) - 1))
            => /\ SameItems(output, pc.items)
               /\ output[pc.index + 1] = pc.items[NewIndex(pc.index, pc.op) + 1]
               /\ output[NewIndex(pc.index, pc.op) + 1] = pc.items[pc.index + 1]
               /\ \A i \in 1..Len(output) :
                    i \notin {pc.index + 1, NewIndex(pc.index, pc.op) + 1}
                      => output[i] = pc.items[i]

(* ---------------------------------------------------------------------- *)
(* Specification SpecExpand: the calls of applyInlinePatches one by one.   *)
(* pc is the sequence of the nodes whose call is still to be made, the     *)
(* next one first; output counts the calls made on a merged object.        *)
(* ---------------------------------------------------------------------- *)

\* the count of re-entries is kept up to this number
ReEntriesBound == 4

RECURSIVE PatchTexts(_)
\* the strings held under a __patch key at or under a value, those of the
\* parsed strings included
PatchTexts(value) ==
  CASE value.t = "arr" -> UNION {PatchTexts(value.v[i]) : i \in 1..Len(value.v)}
    [] value.t = "obj" ->
         UNION {PatchTexts(value.v[i].v) : i \in 1..Len(value.v)}
         \cup (IF GetProp(value, "__patch").t = "str"
               THEN {GetProp(value, "__patch").v}
                    \cup PatchTexts(parseJsonMaybe(GetProp(value, "__patch")))
               ELSE {})
    [] OTHER -> {}

\* parseJsonMaybe of every __patch string of the nodes drawn, computed once
ParsedPatchTexts ==
  [text \in UNION {PatchTexts(n) : n \in PatchNodesDrawn} |-> parseJsonMaybe(Str(text))]

\* const patch = parseJsonMaybe(obj.__patch)
ParsedPatch(node) ==
  IF GetProp(node, "__patch").t = "str"
  THEN ParsedPatchTexts[GetProp(node, "__patch").v]
  ELSE GetProp(node, "__patch")

\* the object is merged with its __patch still in it
MergedKeepingPatch(node) == deepMerge(node, ParsedPatch(node))

\* const patch = parseJsonMaybe(obj.__patch); delete obj.__patch;
\* const merged = deepMerge(obj, patch)
MergedForReEntry(node) == deepMerge(Obj(DeleteProp(node.v, "__patch")), ParsedPatch(node))

\* if (obj.__patch !== undefined) ... if (isPlainObject(patch))
ReEnters(node) ==
  /\ isPlainObject(node)
  /\ GetProp(node, "__patch").t # "undef"
  /\ isPlainObject(ParsedPatch(node))

\* the values of Object.entries(obj), the __patch deleted
EntryValues(node) ==
  [i \in 1..Len(DeleteProp(node.v, "__patch")) |-> DeleteProp(node.v, "__patch")[i].v]

ReEntries(n) == [reentries |-> n]

InitExpand ==
  /\ fn = "applyInlinePatches.calls"
  /\ input \in PatchNodesDrawn
  /\ pc = <<input>>
  /\ output = ReEntries(0)

Calling == fn = "applyInlinePatches.calls" /\ Len(pc) > 0

\* if (Array.isArray(node)) return node.map(applyInlinePatches)
CallOnArray ==
  /\ Calling /\ IsArr(Head(pc))
  /\ pc' = Head(pc).v \o Tail(pc)
  /\ UNCHANGED <<fn, input, output>>

\* if (!isPlainObject(node)) return node
CallOnScalar ==
  /\ Calling /\ ~IsArr(Head(pc)) /\ ~isPlainObject(Head(pc))
  /\ pc' = Tail(pc)
  /\ UNCHANGED <<fn, input, output>>

\* return applyInlinePatches(merged)
CallOnPatched ==
  /\ Calling /\ ReEnters(Head(pc))
  /\ pc' = <<MergedForReEntry(Head(pc))>> \o Tail(pc)
  /\ output' = ReEntries(IF output.reentries < ReEntriesBound
                         THEN output.reentries + 1 ELSE output.reentries)
  /\ UNCHANGED <<fn, input>>

\* for (const [k, v] of Object.entries(obj)) obj[k] = applyInlinePatches(v)
CallOnObject ==
  /\ Calling /\ isPlainObject(Head(pc)) /\ ~ReEnters(Head(pc))
  /\ pc' = EntryValues(Head(pc)) \o Tail(pc)
  /\ UNCHANGED <<fn, input, output>>

NextExpand == CallOnArray \/ CallOnScalar \/ CallOnPatched \/ CallOnObject

SpecExpand == InitExpand /\ [][NextExpand]_vars

\* a call that has been entered runs on
SpecExpandFair == SpecExpand /\ WF_vars(NextExpand)

DoneExpand == fn = "applyInlinePatches.calls" /\ pc = <<>>

\* C27: inline patch expansion terminates on every finite parsed JSON tree,
\* also where a merged-in patch (object or JSON string) brings a __patch key
\* back to the same object: every call of applyInlinePatches returns, no
\* call being left to make in the end.
C27_ExpansionTerminates == <>DoneExpand

\* C27 witness: the expansion of {style, __patch: {__patch: ...}} has ended
\* after the merged object was entered again twice
C27_Witness ==
  /\ DoneExpand
  /\ ReEnters(input) /\ ReEnters(MergedForReEntry(input))
  /\ output.reentries = 2

\* C28 as stated: no message returned by renderFlexMessage holds a __patch
\* key at any depth, whatever the template output and whatever
\* data.advanced.messagePatch holds.
C28_NoPatchKeyReturned == DoneRender => NoPatchKey(output.message)

\* data.advanced.messagePatch is object-shaped and holds a __patch key
FinalPatchCarriesPatchKey ==
  /\ ObjectShaped(StoredMessagePatch(input.data))
  /\ ~NoPatchKey(ObjectOfPatch(StoredMessagePatch(input.data)))

\* C28 amended: no message returned by renderFlexMessage holds a __patch key
\* at any depth, whatever the template output, unless
\* data.advanced.messagePatch (an object, or a JSON string of one) itself
\* holds a __patch key.
C28_NoPatchKeyUnlessFinalPatch ==
  (DoneRender /\ ~FinalPatchCarriesPatchKey) => NoPatchKey(output.message)

\* C28 witness: a template output with a __patch in its body, rendered with
\* a final patch that holds none, gave a message without any __patch
C28_Witness ==
  /\ DoneRender /\ CameToParse /\ ParsedText.ok
  /\ ~NoPatchKey(ParsedText.val)
  /\ ObjectShaped(StoredMessagePatch(input.data))
  /\ ~FinalPatchCarriesPatchKey
  /\ isPlainObject(output.message)
  /\ NoPatchKey(output.message)

(* ---------------------------------------------------------------------- *)
(* Specification SpecLinks: docsStore.publish and publishValidated of one  *)
(* doc called by several callers, their requests to the database           *)
(* interleaved. output is the database: the status of the doc and the      *)
(* share_links rows of the doc, each row by its token; pc is the position  *)
(* of every caller.                                                        *)
(* ---------------------------------------------------------------------- *)

\* the docs row and the share_links rows with its doc_id
Database(status, links) == [status |-> status, links |-> links]

\* where a caller is, and the tokens its publishes have returned so far
LinkCaller(at, returned) == [at |-> at, returned |-> returned]

\* generateToken(): a token no row holds yet
generateToken(links) == Len(links) + 1

\* .maybeSingle(): the row where there is exactly one, null where there is
\* none, an error (null as well) where there are several
getByDocId(links) == IF Len(links) = 1 THEN Num(links[1]) ELSE Null

InitLinks ==
  /\ fn \in {"docsStore.publish", "docsStore.publishValidated"}
  /\ input \in {Database(st, links) : st \in {"draft", "published"}, links \in {<<>>, <<1>>}}
  /\ output = input
  /\ pc = [p \in Publishers |-> LinkCaller("idle", <<>>)]

InLinks == fn \in {"docsStore.publish", "docsStore.publishValidated"}

\* const updatedDoc = await docsStore.update(id, { status: 'published', ... })
PublishUpdateDoc(p) ==
  /\ InLinks /\ pc[p].at = "idle" /\ Len(pc[p].returned) < PublishesBound
  /\ output' = Database("published", output.links)
  /\ pc' = [pc EXCEPT ![p] = LinkCaller("updated", pc[p].returned)]
  /\ UNCHANGED <<fn, input>>

\* let shareLink = await shareLinksStore.getByDocId(id): a link found is returned
PublishGetLink(p) ==
  /\ InLinks /\ pc[p].at = "updated"
  /\ pc' = [pc EXCEPT ![p] =
              IF Truthy(getByDocId(output.links))
              THEN LinkCaller("idle", Append(pc[p].returned, getByDocId(output.links).v))
              ELSE LinkCaller("creating", pc[p].returned)]
  /\ UNCHANGED <<fn, input, output>>

\* if (!shareLink) shareLink = await shareLinksStore.create(id); return
PublishCreateLink(p) ==
  /\ InLinks /\ pc[p].at = "creating"
  /\ output' = Database(output.status, Append(output.links, generateToken(output.links)))
  /\ pc' = [pc EXCEPT ![p] =
              LinkCaller("idle", Append(pc[p].returned, generateToken(output.links)))]
  /\ UNCHANGED <<fn, input>>

NextLinks ==
  \E p \in Publishers : PublishUpdateDoc(p) \/ PublishGetLink(p) \/ PublishCreateLink(p)

SpecLinks == InitLinks /\ [][NextLinks]_vars

\* C30: a doc has at most one share link: after any number of publishes of
\* the doc, in any interleaving of their get and create steps, exactly one
\* share_links row exists for the doc and every publish has returned the
\* token of that row.
C30_OneShareLink ==
  InLinks
    => /\ Len(output.links) <= 1
       /\ \A p \in Publishers : \A i \in 1..Len(pc[p].returned) :
            /\ Len(output.links) = 1
            /\ pc[p].returned[i] = output.links[1]

====
